---- MODULE Spec2Model ----
(***************************************************************************)
(* Model of the content generator: the ContentGenerationCoordinator        *)
(* pipeline (Write -> Review -> Rewrite -> assemble -> export) with its    *)
(* agents and input processing, and the SimpleVectorStore retrieval store. *)
(*                                                                         *)
(* Conventions.  A text is a non-empty sequence of lines (Python's         *)
(* str.split("\n")); the empty string is the one-line text <<"">>.  An     *)
(* article line is an atom; a review line is a sequence of tokens.  A      *)
(* topic is a sequence of characters.  Scores are kept in tenths           *)
(* (10.0 is 100, 8.5 is 85).  A result that a stage has not produced yet   *)
(* is the empty sequence, a produced one the one-element sequence <<r>>.   *)
(***************************************************************************)
EXTENDS Integers, Sequences, FiniteSets, TLC

(***************************************************************************)
(* Bounds                                                                  *)
(***************************************************************************)
MaxTopicLen == 4

MaxTextLines == 1

MaxReviewLines == 1

(***************************************************************************)
(* Sequence helpers                                                        *)
(***************************************************************************)
SeqsUpTo(S, n) == UNION {[1..k -> S] : k \in 0..n}

TextsUpTo(S, n) == UNION {[1..k -> S] : k \in 1..n}

(***************************************************************************)
(* Input processing: DataProcessor._clean_text on a topic                  *)
(***************************************************************************)
TopicChars == {"a", " ", "<", ">", "#"}

WhitespaceChars == {" "}

\* the characters the last re.sub of _clean_text keeps: [\w\s\-.,!?;:()...]
SafeChars == {"a", " "}

MaxCleanLen == 500

MinTopicLen == 3

RECURSIVE LStrip(_)
LStrip(s) ==
    IF s # <<>> /\ Head(s) \in WhitespaceChars THEN LStrip(Tail(s)) ELSE s

RECURSIVE RStrip(_)
RStrip(s) ==
    IF s # <<>> /\ s[Len(s)] \in WhitespaceChars
    THEN RStrip(SubSeq(s, 1, Len(s) - 1))
    ELSE s

Strip(s) == RStrip(LStrip(s))

\* re.sub(r'\s+', ' ', s): every run of whitespace becomes one space
RECURSIVE CollapseWhitespace(_)
CollapseWhitespace(s) ==
    IF s = <<>> THEN <<>>
    ELSE IF Head(s) \in WhitespaceChars
         THEN <<" ">> \o CollapseWhitespace(LStrip(s))
         ELSE <<Head(s)>> \o CollapseWhitespace(Tail(s))

\* re.sub(r'<[^>]+>', '', s): leftmost matches, "<", one or more
\* characters other than ">", then ">"
RECURSIVE RemoveTags(_)
RemoveTags(s) ==
    IF s = <<>> THEN <<>>
    ELSE IF Head(s) = "<" /\ \E j \in 2..Len(s) : s[j] = ">"
         THEN LET close == CHOOSE j \in 2..Len(s) :
                               /\ s[j] = ">"
                               /\ \A k \in 2..(j - 1) : s[k] # ">"
              IN  IF close >= 3
                  THEN RemoveTags(SubSeq(s, close + 1, Len(s)))
                  ELSE <<Head(s)>> \o RemoveTags(Tail(s))
         ELSE <<Head(s)>> \o RemoveTags(Tail(s))

IsSafeChar(c) == c \in SafeChars

RemoveUnsafe(s) == SelectSeq(s, IsSafeChar)

Truncate(s) ==
    IF Len(s) > MaxCleanLen
    THEN SubSeq(s, 1, MaxCleanLen) \o <<".", ".", ".">>
    ELSE s

CleanText(text) ==
    Truncate(RemoveUnsafe(RemoveTags(CollapseWhitespace(Strip(text)))))

\* DataProcessor._validate_processed_data: TRUE when no ValueError is raised
ValidProcessedData(data) == data.topic # <<>> /\ Len(data.topic) >= MinTopicLen

ProcessedInput(raw_input) == [topic |-> CleanText(raw_input.topic)]

RawTopics == SeqsUpTo(TopicChars, MaxTopicLen)

(***************************************************************************)
(* Texts the models can return                                             *)
(***************************************************************************)
ArticleLines ==
    {"", " ", "# Heading", "Body text.", "Here is the rewritten article:"}

\* lines _parse_rewriting_response takes for meta-commentary
MetaLines == {"Here is the rewritten article:"}

BlankLines == {"", " "}

EmptyText == <<"">>

ArticleTexts == TextsUpTo(ArticleLines, MaxTextLines)

\* len(line.split())
WordsInLine(line) ==
    CASE line = "# Heading" -> 2
      [] line = "Body text." -> 2
      [] line = "Here is the rewritten article:" -> 5
      [] OTHER -> 0

RECURSIVE WordCount(_)
WordCount(text) ==
    IF text = <<>> THEN 0 ELSE WordsInLine(Head(text)) + WordCount(Tail(text))

(***************************************************************************)
(* Reviewer: ReviewerAgent._parse_review_feedback                          *)
(***************************************************************************)
ScoreTokens == {"0", "6", "9.8", "15"}

ReviewTokens ==
    {"OVERALL SCORE", "Overall Score", "AREAS FOR IMPROVEMENT",
     "RECOMMENDED CHANGES", ":", "/", "-", "[", "]", "10", "text"}
        \cup ScoreTokens

\* float(token) in tenths, for the tokens float() accepts
FloatVal(tok) ==
    CASE tok = "0" -> 0
      [] tok = "6" -> 60
      [] tok = "9.8" -> 98
      [] tok = "10" -> 100
      [] tok = "15" -> 150

FloatTokens == ScoreTokens \cup {"10"}

\* str.upper() on a token
Upper(tok) == IF tok = "Overall Score" THEN "OVERALL SCORE" ELSE tok

\* phrase + ":" in line.upper()
ContainsHeading(line, phrase) ==
    \E i \in 1..(Len(line) - 1) : Upper(line[i]) = phrase /\ line[i + 1] = ":"

\* line.split(":")[-1].strip()
AfterLastColon(line) ==
    IF \E i \in 1..Len(line) : line[i] = ":"
    THEN LET last == CHOOSE i \in 1..Len(line) :
                         /\ line[i] = ":"
                         /\ \A k \in (i + 1)..Len(line) : line[k] # ":"
         IN  SubSeq(line, last + 1, Len(line))
    ELSE line

HasSlash(part) == \E i \in 1..Len(part) : part[i] = "/"

\* score_part.split("/")[0]
BeforeFirstSlash(part) ==
    LET first == CHOOSE i \in 1..Len(part) :
                     /\ part[i] = "/"
                     /\ \A k \in 1..(i - 1) : part[k] # "/"
    IN  SubSeq(part, 1, first - 1)

\* float(s) returns a value exactly when s is one numeric token
FloatParses(part) == Len(part) = 1 /\ part[1] \in FloatTokens

DefaultScore == 70

RevisionThreshold == 70

\* the first loop of _parse_review_feedback: the score, None, or ValueError
ExtractOverallScore(lines) ==
    IF \E i \in 1..Len(lines) : ContainsHeading(lines[i], "OVERALL SCORE")
    THEN LET first == CHOOSE i \in 1..Len(lines) :
                          /\ ContainsHeading(lines[i], "OVERALL SCORE")
                          /\ \A k \in 1..(i - 1) :
                                 ~ContainsHeading(lines[k], "OVERALL SCORE")
             score_part == AfterLastColon(lines[first])
         IN  IF HasSlash(score_part)
             THEN IF FloatParses(BeforeFirstSlash(score_part))
                  THEN [raised |-> FALSE, none |-> FALSE,
                        value |-> FloatVal(BeforeFirstSlash(score_part)[1])]
                  ELSE [raised |-> TRUE, none |-> TRUE, value |-> 0]
             ELSE [raised |-> FALSE, none |-> TRUE, value |-> 0]
    ELSE [raised |-> FALSE, none |-> TRUE, value |-> 0]

IsBullet(line) == line # <<>> /\ line[1] \in {"-"}

\* the second loop of _parse_review_feedback over lines[i..], in_improvement
\* and in_recommendations carried along
RECURSIVE ExtractSuggestions(_, _, _)
ExtractSuggestions(lines, in_improvement, in_recommendations) ==
    IF lines = <<>> THEN <<>>
    ELSE LET line == Head(lines)
         IN  IF ContainsHeading(line, "AREAS FOR IMPROVEMENT")
             THEN ExtractSuggestions(Tail(lines), TRUE, FALSE)
             ELSE IF ContainsHeading(line, "RECOMMENDED CHANGES")
             THEN ExtractSuggestions(Tail(lines), FALSE, TRUE)
             ELSE IF IsBullet(line) /\ (in_improvement \/ in_recommendations)
             THEN <<Tail(line)>>
                      \o ExtractSuggestions(Tail(lines), in_improvement,
                                            in_recommendations)
             ELSE ExtractSuggestions(Tail(lines), in_improvement,
                                     in_recommendations)

\* overall_score or 7.0
ScoreOrDefault(score) ==
    IF score.none \/ score.value = 0 THEN DefaultScore ELSE score.value

\* _parse_review_feedback without its except branch taking effect: the
\* failed conversion is passed over and the normal dict is returned
ParseReviewFeedbackPassesOver(feedback) ==
    LET score == ExtractOverallScore(feedback)
    IN  [overall_score |-> ScoreOrDefault(score),
         suggestions |-> ExtractSuggestions(feedback, FALSE, FALSE),
         needs_revision |-> ScoreOrDefault(score) < RevisionThreshold]

ParseReviewFeedback(feedback) ==
    LET score == ExtractOverallScore(feedback)
    IN  IF score.raised
        THEN [overall_score |-> DefaultScore,
              suggestions |-> << <<"Review parsing failed">> >>,
              needs_revision |-> FALSE]
        ELSE [overall_score |-> ScoreOrDefault(score),
              suggestions |-> ExtractSuggestions(feedback, FALSE, FALSE),
              needs_revision |-> ScoreOrDefault(score) < RevisionThreshold]

ReviewLines ==
    {<<>>,
     <<"text">>,
     <<"OVERALL SCORE", ":", "[", "6", "/", "10", "]">>,
     <<"OVERALL SCORE", ":", "9.8">>,
     <<"AREAS FOR IMPROVEMENT", ":">>,
     <<"-", "text">>}
        \cup {<<h, ":", n, "/", "10">> :
                  h \in {"OVERALL SCORE", "Overall Score"}, n \in ScoreTokens}

ReviewTexts == TextsUpTo(ReviewLines, MaxReviewLines)

EmptyReview == << <<>> >>

(***************************************************************************)
(* Rewriter: RewriterAgent                                                 *)
(***************************************************************************)
IsBlankLine(line) == line \in BlankLines

RECURSIVE DropLeadingBlank(_)
DropLeadingBlank(text) ==
    IF text # <<>> /\ IsBlankLine(Head(text))
    THEN DropLeadingBlank(Tail(text))
    ELSE text

RECURSIVE DropTrailingBlank(_)
DropTrailingBlank(text) ==
    IF text # <<>> /\ IsBlankLine(text[Len(text)])
    THEN DropTrailingBlank(SubSeq(text, 1, Len(text) - 1))
    ELSE text

\* response.strip(): the whitespace at both ends goes, line breaks included
StripText(text) ==
    LET inner == DropTrailingBlank(DropLeadingBlank(text))
    IN  IF inner = <<>> THEN EmptyText ELSE inner

IsKeptLine(line) == line \notin MetaLines /\ ~IsBlankLine(line)

\* '\n\n'.join(lines)
RECURSIVE JoinParagraphs(_)
JoinParagraphs(lines) ==
    IF Len(lines) <= 1 THEN lines
    ELSE <<Head(lines), "">> \o JoinParagraphs(Tail(lines))

ParseRewritingResponse(response) ==
    LET content == StripText(response)
        cleaned_lines == SelectSeq(content, IsKeptLine)
    IN  IF cleaned_lines # <<>> THEN JoinParagraphs(cleaned_lines) ELSE content

\* the word counts of _calculate_improvements (the sentence and business-term
\* counts need the characters of a line and are left out)
CalculateImprovements(original, rewritten) ==
    [word_count_change |-> WordCount(rewritten) - WordCount(original),
     quality_enhancement |->
         IF 10 * WordCount(rewritten) > 11 * WordCount(original)
         THEN "Significant" ELSE "Moderate"]

RewriteTargetScore == 100

RewriteDegradedScore == 80

\* rewrite_content when generate_response returned response
RewriteSucceeded(content, response) ==
    LET rewritten_content == ParseRewritingResponse(response)
    IN  [rewritten_content |-> rewritten_content,
         original_content |-> content,
         improvement_metrics |->
             CalculateImprovements(content, rewritten_content),
         rewriting_applied |-> TRUE,
         target_quality_score |-> RewriteTargetScore]

(***************************************************************************)
(* app.py: JenosizeContentGenerator._enhance_content, the template-based   *)
(* enhancement of _rewriter_agent                                          *)
(***************************************************************************)
\* the line f"# {topic}", one line whatever the topic is
TopicHeading == "# {topic}"

ConclusionHeading == "## Conclusion"

\* the sentence f"{topic} represents a significant opportunity ..."
ConclusionParagraph == "{topic} represents a significant opportunity"

\* lines that begin with "#"
HashLines == {"# Heading", TopicHeading, ConclusionHeading}

\* content.startswith("#")
StartsWithHash(text) == text # <<>> /\ text[1] \in HashLines

\* 'conclusion' in content.lower()
MentionsConclusion(text) ==
    \E i \in 1..Len(text) : text[i] \in {ConclusionHeading}

ConclusionMinWords == 100

\* len(topic.split())
TopicWords(topic) ==
    Cardinality({i \in 1..Len(topic) :
                     /\ topic[i] \notin WhitespaceChars
                     /\ (i = 1 \/ topic[i - 1] \in WhitespaceChars)})

Newline == "\n"

\* the text as one string: its non-empty lines with a Newline between every
\* two lines
RECURSIVE JoinLines(_)
JoinLines(text) ==
    LET line == IF Head(text) = "" THEN <<>> ELSE <<Head(text)>>
    IN  IF Len(text) <= 1 THEN line
        ELSE line \o <<Newline>> \o JoinLines(Tail(text))

\* content.replace('\n\n\n', '\n\n'): one pass, left to right
RECURSIVE ReplaceTripleNewline(_)
ReplaceTripleNewline(flat) ==
    IF Len(flat) < 3 THEN flat
    ELSE IF flat[1] = Newline /\ flat[2] = Newline /\ flat[3] = Newline
    THEN <<Newline, Newline>> \o ReplaceTripleNewline(SubSeq(flat, 4, Len(flat)))
    ELSE <<Head(flat)>> \o ReplaceTripleNewline(Tail(flat))

\* the inverse of JoinLines
RECURSIVE SplitLines(_)
SplitLines(flat) ==
    IF flat = <<>> THEN <<"">>
    ELSE IF Head(flat) = Newline THEN <<"">> \o SplitLines(Tail(flat))
    ELSE IF Len(flat) = 1 THEN flat
    ELSE <<Head(flat)>> \o SplitLines(SubSeq(flat, 3, Len(flat)))

EnhanceContent(content, topic) ==
    LET titled == IF StartsWithHash(content) THEN content
                  ELSE <<TopicHeading, "">> \o content
        words == WordCount(content)
                     + (IF StartsWithHash(content) THEN 0
                        ELSE 1 + TopicWords(topic))
        cleaned == StripText(SplitLines(ReplaceTripleNewline(JoinLines(titled))))
    IN  IF ~MentionsConclusion(cleaned) /\ words > ConclusionMinWords
        THEN cleaned \o <<"", ConclusionHeading, "", ConclusionParagraph>>
        ELSE cleaned

\* rewrite_content when generate_response raised
RewriteFailed(content) ==
    [rewritten_content |-> content,
     original_content |-> content,
     improvement_metrics |-> [error |-> "generation failed"],
     rewriting_applied |-> FALSE,
     target_quality_score |-> RewriteDegradedScore]

(***************************************************************************)
(* Writer and Coordinator helpers                                          *)
(***************************************************************************)
\* {**base, **extra}
MergeDict(base, extra) ==
    [k \in DOMAIN base \cup DOMAIN extra |->
        IF k \in DOMAIN extra THEN extra[k] ELSE base[k]]

SimplifiedResearch(req) ==
    [research_insights |-> <<"Content topic: ">> \o req.topic \o <<".">>,
     relevant_examples |-> <<>>,
     research_metadata |-> [topic |-> req.topic]]

\* the topic read under a key the requirements do not have
WritingResultWrongKey(content_requirements, article_content) ==
    [article_content |-> article_content,
     content_metadata |->
         [topic |-> <<>>,
          estimated_word_count |-> WordCount(article_content)]]

\* the result WriterAgent.process builds from the model's text
WritingResult(content_requirements, article_content) ==
    [article_content |-> article_content,
     content_metadata |->
         [topic |-> content_requirements.topic,
          estimated_word_count |-> WordCount(article_content)]]

ReviewResult(review_input, review_feedback) ==
    [review_feedback |-> review_feedback,
     quality_assessment |-> ParseReviewFeedback(review_feedback),
     content_metadata |-> review_input.content_metadata]

\* the dictionary _execute_rewriting returns
RewritingStageResult(writing, rewriting) ==
    [article_content |-> rewriting.rewritten_content,
     content_metadata |->
         MergeDict(writing.content_metadata,
                   [rewriting_applied |-> rewriting.rewriting_applied,
                    target_quality_score |-> rewriting.target_quality_score,
                    improvement_metrics |-> rewriting.improvement_metrics]),
     rewriting_data |-> rewriting]

FallbackQuality == 85

\* the target score reported without looking at rewriting_applied
QualityScoreUnconditional(target_quality, rewriting_applied) == target_quality

QualityScore(target_quality, rewriting_applied) ==
    IF rewriting_applied THEN target_quality ELSE FallbackQuality

\* step 5 of generate_content
AssembleResult(research, review, final_result) ==
    LET target_quality == final_result.content_metadata.target_quality_score
        rewriting_applied == final_result.content_metadata.rewriting_applied
    IN  [final_content |-> final_result.article_content,
         content_metadata |-> final_result.content_metadata,
         quality_score |-> QualityScore(target_quality, rewriting_applied),
         workflow_data |->
             [research_insights |-> research.research_insights,
              relevant_examples |-> research.relevant_examples,
              review_suggestions |-> review.quality_assessment.suggestions,
              rewriting_improvements |->
                  final_result.rewriting_data.improvement_metrics],
         generation_metadata |->
             [workflow_completed |-> TRUE,
              agents_used |-> <<"writer", "reviewer", "rewriter">>,
              refinement_applied |-> FALSE,
              rewriting_applied |-> rewriting_applied,
              enhanced_mode |-> TRUE,
              target_quality_achieved |-> rewriting_applied]]

\* ContentExporter._prepare_export_data
PrepareExportData(content_data) ==
    [Topic |-> content_data.content_metadata.topic,
     WordCount |-> WordCount(content_data.final_content),
     QualityScore |-> content_data.quality_score,
     RewritingApplied |-> content_data.generation_metadata.rewriting_applied,
     GeneratedContent |-> content_data.final_content]

ExcelPath == "generated_content/jenosize_content_history.xlsx"

ExportFailedText == "Export failed: error"

(***************************************************************************)
(* Retrieval store: SimpleVectorStore.  A content is a sequence of words,  *)
(* a metadata dictionary a function from its keys, the document table a    *)
(* sequence of rows in rowid order.  TF-IDF weights are fixed-point        *)
(* integers (IdfScale to 1.0); a similarity is kept as the exact fraction  *)
(* num/den of its square, so comparisons need no square root.              *)
(***************************************************************************)
\* stop_words='english'
StopWords == {"the"}

\* the documents callers add: a content and its metadata
SampleDocuments ==
    {[content |-> <<"ai">>,
      metadata |-> [source |-> "jenosize_website"]],
     [content |-> <<"ai", "retail">>,
      metadata |-> [source |-> "jenosize_style"]],
     [content |-> <<"ai">>,
      metadata |-> [source |-> "jenosize_website", category |-> "AI"]],
     [content |-> <<"the">>,
      metadata |-> [source |-> "jenosize_website"]]}

Queries == {<<"the">>, <<"ai">>, <<"retail">>, <<"ai", "retail">>}

Filters ==
    {[source |-> "jenosize_website"],
     [source |-> "jenosize_website", category |-> "AI"]}

NoFilter == [key \in {} |-> ""]

ExplicitIds == {"x", "doc_2"}

NoId == ""

MaxDocs == 2

MaxResults == 2

Instances == {"rag", "scraper"}

\* f"doc_{n}"
GeneratedId(n) ==
    CASE n = 1 -> "doc_1"
      [] n = 2 -> "doc_2"
      [] n = 3 -> "doc_3"
      [] n = 4 -> "doc_4"
      [] OTHER -> "doc_5"

IsToken(w) == w \notin StopWords

\* the words the analyzer keeps
Tokens(content) == SelectSeq(content, IsToken)

\* ngram_range=(1, 2): the unigrams and bigrams of the kept words
Features(content) ==
    LET toks == Tokens(content)
    IN  {<<toks[i]>> : i \in 1..Len(toks)}
            \cup {<<toks[i], toks[i + 1]>> : i \in 1..(Len(toks) - 1)}

TermCount(content, f) ==
    LET toks == Tokens(content)
    IN  IF Len(f) = 1
        THEN Cardinality({i \in 1..Len(toks) : toks[i] = f[1]})
        ELSE Cardinality({i \in 1..(Len(toks) - 1) :
                              toks[i] = f[1] /\ toks[i + 1] = f[2]})

MaxFeatures == 1000

IdfScale == 10

\* IdfScale * (ln((1 + n) / (1 + df)) + 1), rounded
Idf(n, df) ==
    CASE df >= n -> IdfScale
      [] n = 2 /\ df = 1 -> 14
      [] n = 3 /\ df = 1 -> 17
      [] n = 3 /\ df = 2 -> 13
      [] n = 4 /\ df = 1 -> 19
      [] n = 4 /\ df = 2 -> 15
      [] n = 4 /\ df = 3 -> 12
      [] OTHER -> 20

\* the vocabulary fit() learns (max_features keeps the most frequent)
Vocabulary(contents) ==
    LET all == UNION {Features(contents[i]) : i \in 1..Len(contents)}
        Total(f) == LET Sum[k \in 0..Len(contents)] ==
                            IF k = 0 THEN 0
                            ELSE Sum[k - 1] + TermCount(contents[k], f)
                    IN  Sum[Len(contents)]
    IN  IF Cardinality(all) <= MaxFeatures THEN all
        ELSE CHOOSE S \in SUBSET all :
                 /\ Cardinality(S) = MaxFeatures
                 /\ \A f \in S, g \in all \ S : Total(f) >= Total(g)

\* TfidfVectorizer(...) before fitting
UnfittedVectorizer ==
    [fitted |-> FALSE, vocabulary |-> {}, n |-> 0, df |-> [f \in {} |-> 0]]

\* fit() raises ValueError on an empty vocabulary
FitRaises(contents) == Vocabulary(contents) = {}

FittedVectorizer(contents) ==
    LET vocabulary == Vocabulary(contents)
    IN  [fitted |-> TRUE,
         vocabulary |-> vocabulary,
         n |-> Len(contents),
         df |-> [f \in vocabulary |->
                    Cardinality({i \in 1..Len(contents) :
                                     f \in Features(contents[i])})]]

\* one row of transform(): tf * idf over the fitted vocabulary
Transform(vectorizer, content) ==
    [f \in vectorizer.vocabulary |->
        TermCount(content, f) * Idf(vectorizer.n, vectorizer.df[f])]

TransformAll(vectorizer, contents) ==
    [i \in 1..Len(contents) |-> Transform(vectorizer, contents[i])]

RECURSIVE DotOver(_, _, _)
DotOver(S, u, v) ==
    IF S = {} THEN 0
    ELSE LET f == CHOOSE g \in S : TRUE
         IN  u[f] * v[f] + DotOver(S \ {f}, u, v)

Dot(u, v) == DotOver(DOMAIN u, u, v)

\* cosine_similarity squared, as a fraction; 0 when a vector is zero
Similarity(u, v) ==
    IF Dot(u, v) = 0 THEN [num |-> 0, den |-> 1]
    ELSE [num |-> Dot(u, v) * Dot(u, v), den |-> Dot(u, u) * Dot(v, v)]

\* a / b < c / d for non-negative a, c and positive b, d
RECURSIVE FracLess(_, _, _, _)
FracLess(a, b, c, d) ==
    IF a \div b # c \div d THEN a \div b < c \div d
    ELSE IF c % d = 0 THEN FALSE
    ELSE IF a % b = 0 THEN TRUE
    ELSE FracLess(d, c % d, b, a % b)

SimLess(x, y) == FracLess(x.num, x.den, y.num, y.den)

ContentsOf(documents) == [i \in 1..Len(documents) |-> documents[i].content]

\* INSERT OR REPLACE: a row with the same id is deleted, the new row gets
\* the next rowid
InsertOrReplace(table, row) ==
    LET Keep(r) == r.id # row.id IN Append(SelectSeq(table, Keep), row)

\* a filter key the metadata lacks does not reject the document
MatchesFilterMissingKey(metadata, filter_metadata) ==
    \A key \in DOMAIN filter_metadata :
        ~(key \in DOMAIN metadata
              /\ metadata[key] # filter_metadata[key])

\* _matches_filter
MatchesFilter(metadata, filter_metadata) ==
    \A key \in DOMAIN filter_metadata :
        ~(key \notin DOMAIN metadata
              \/ metadata[key] # filter_metadata[key])

\* an index that is built once and kept while a fitted vectorizer exists
RebuiltIndexKeepsFitted(st, documents) ==
    IF st.vectorizer # <<>> /\ st.vectorizer[1].fitted
    THEN [vectorizer |-> st.vectorizer,
          document_vectors |-> st.document_vectors,
          raised |-> FALSE]
    ELSE IF documents = <<>>
    THEN [vectorizer |-> <<UnfittedVectorizer>>,
          document_vectors |-> <<>>,
          raised |-> FALSE]
    ELSE IF FitRaises(ContentsOf(documents))
    THEN [vectorizer |-> <<UnfittedVectorizer>>,
          document_vectors |-> st.document_vectors,
          raised |-> TRUE]
    ELSE LET vectorizer == FittedVectorizer(ContentsOf(documents))
         IN  [vectorizer |-> <<vectorizer>>,
              document_vectors |->
                  <<TransformAll(vectorizer, ContentsOf(documents))>>,
              raised |-> FALSE]

\* _create_new_vectorizer over the table's documents: the instance's new
\* vectorizer and vectors, and whether fit_transform raised
RebuiltIndex(st, documents) ==
    IF documents = <<>>
    THEN [vectorizer |-> <<UnfittedVectorizer>>,
          document_vectors |-> <<>>,
          raised |-> FALSE]
    ELSE IF FitRaises(ContentsOf(documents))
    THEN [vectorizer |-> <<UnfittedVectorizer>>,
          document_vectors |-> st.document_vectors,
          raised |-> TRUE]
    ELSE LET vectorizer == FittedVectorizer(ContentsOf(documents))
         IN  [vectorizer |-> <<vectorizer>>,
              document_vectors |->
                  <<TransformAll(vectorizer, ContentsOf(documents))>>,
              raised |-> FALSE]

IndexOrders(n) ==
    {p \in [1..n -> 1..n] : \A i, j \in 1..n : i # j => p[i] # p[j]}

\* the orders np.argsort(similarities)[::-1] may return: descending
\* similarity, equal similarities in any order (the sort is not stable)
ArgsortDescending(similarities) ==
    {p \in IndexOrders(Len(similarities)) :
        \A i \in 1..(Len(similarities) - 1) :
            ~SimLess(similarities[p[i]], similarities[p[i + 1]])}

FilteredIndices(documents, filter_metadata) ==
    LET Matching[k \in 0..Len(documents)] ==
            IF k = 0 THEN <<>>
            ELSE IF DOMAIN filter_metadata = {}
                    \/ MatchesFilter(documents[k].metadata, filter_metadata)
                 THEN Append(Matching[k - 1], k)
                 ELSE Matching[k - 1]
    IN  Matching[Len(documents)]

\* the results search() can return on an instance with state st
SearchResults(st, documents, query, n_results, filter_metadata) ==
    IF st.vectorizer = <<>> \/ st.document_vectors = <<>> THEN {<<>>}
    ELSE IF documents = <<>> THEN {<<>>}
    ELSE
    LET filtered_indices == FilteredIndices(documents, filter_metadata)
        filtered_docs == [k \in 1..Len(filtered_indices) |->
                              documents[filtered_indices[k]]]
        vectorizer == st.vectorizer[1]
        vectors == st.document_vectors[1]
    IN  IF filtered_indices = <<>> THEN {<<>>}
        \* transform() on an unfitted vectorizer raises: caught, []
        ELSE IF ~vectorizer.fitted THEN {<<>>}
        \* document_vectors[filtered_indices] out of range: caught, []
        ELSE IF Len(filtered_indices) < Len(vectors)
                /\ \E k \in 1..Len(filtered_indices) :
                       filtered_indices[k] > Len(vectors)
             THEN {<<>>}
        ELSE
        LET filtered_vectors ==
                IF Len(filtered_indices) < Len(vectors)
                THEN [k \in 1..Len(filtered_indices) |->
                          vectors[filtered_indices[k]]]
                ELSE vectors
            query_vector == Transform(vectorizer, query)
        IN  \* the columns of the two matrices differ: caught, []
            IF \E k \in 1..Len(filtered_vectors) :
                   DOMAIN filtered_vectors[k] # DOMAIN query_vector
            THEN {<<>>}
            ELSE
            LET similarities ==
                    [k \in 1..Len(filtered_vectors) |->
                        Similarity(query_vector, filtered_vectors[k])]
                Top(order) ==
                    SubSeq(order, 1,
                           IF n_results < Len(order)
                           THEN n_results ELSE Len(order))
                Positive(idx) == similarities[idx].num > 0
                Entry(idx) ==
                    [content |-> filtered_docs[idx].content,
                     metadata |-> filtered_docs[idx].metadata,
                     similarity |-> similarities[idx],
                     id |-> filtered_docs[idx].id]
                Results(order) ==
                    LET kept == SelectSeq(Top(order), Positive)
                    IN  [k \in 1..Len(kept) |-> Entry(kept[k])]
            IN  {Results(order) : order \in ArgsortDescending(similarities)}

(***************************************************************************)
(* Style examples: SimpleRAGSystem.get_relevant_examples.  A content is    *)
(* the pair of its first 100 characters and the rest; a distance is kept   *)
(* in hundredths, a quality_score in tenths, a priority score in tenths.   *)
(***************************************************************************)
MaxExamples == 2

\* the documents the index can rank for a topic, nearest first, each with
\* the distance search reports for it (below 1: search keeps similarity > 0)
RankedPool ==
    <<[id |-> "w_hi", content |-> <<"Brand", "article">>, distance |-> 0,
       metadata |-> [source |-> "jenosize_website", quality_score |-> 100,
                     category |-> "AI", industry |-> "Technology"]],
      [id |-> "s_hi", content |-> <<"Style", "article">>, distance |-> 0,
       metadata |-> [source |-> "jenosize_style", quality_score |-> 100,
                     category |-> "AI", industry |-> "Technology"]],
      [id |-> "t_hi", content |-> <<"Template", "article">>, distance |-> 0,
       metadata |-> [quality_score |-> 100,
                     category |-> "AI", industry |-> "Technology"]],
      [id |-> "t_dup", content |-> <<"Brand", "copy">>, distance |-> 50,
       metadata |-> [category |-> "AI", industry |-> "General"]],
      [id |-> "w_lo", content |-> <<"Brand two", "article">>, distance |-> 99,
       metadata |-> [source |-> "jenosize_website", quality_score |-> 0,
                     category |-> "Retail", industry |-> "General"]],
      [id |-> "s_lo", content |-> <<"Style two", "article">>, distance |-> 99,
       metadata |-> [source |-> "jenosize_style", quality_score |-> 0,
                     category |-> "Retail", industry |-> "General"]],
      [id |-> "t_lo", content |-> <<"Template two", "article">>,
       distance |-> 99,
       metadata |-> [category |-> "Retail", industry |-> "General"]]>>

Categories == {"AI", "Retail"}

Industries == {"General", "Technology"}

\* an optional argument left at None
NoValue == "None"

Tiers == {"jenosize_website", "jenosize_style", "template"}

\* the elements of seq at the positions in S, in order
RECURSIVE SubsequenceAt(_, _)
SubsequenceAt(seq, S) ==
    IF seq = <<>> THEN <<>>
    ELSE LET init == SubsequenceAt(SubSeq(seq, 1, Len(seq) - 1), S)
         IN  IF Len(seq) \in S THEN Append(init, seq[Len(seq)]) ELSE init

FirstN(seq, n) == SubSeq(seq, 1, IF n < Len(seq) THEN n ELSE Len(seq))

\* a search whose exception reaches the caller
TierSearchPropagates(hits, filter_metadata, n_results, failed) ==
    IF failed THEN [raised |-> TRUE, value |-> <<>>]
    ELSE LET Matches(example) ==
                 MatchesFilter(example.metadata, filter_metadata)
         IN  [raised |-> FALSE,
              value |-> FirstN(SelectSeq(hits, Matches), n_results)]

\* one search of get_relevant_examples: the ranked matches of the filter,
\* cut to n_results; [] when search caught an exception
TierSearch(hits, filter_metadata, n_results, failed) ==
    IF failed THEN [raised |-> FALSE, value |-> <<>>]
    ELSE LET Matches(example) ==
                 MatchesFilter(example.metadata, filter_metadata)
         IN  [raised |-> FALSE,
              value |-> FirstN(SelectSeq(hits, Matches), n_results)]

\* dict.get(key, default)
MetadataGet(metadata, key, default) ==
    IF key \in DOMAIN metadata THEN metadata[key] ELSE default

DefaultQuality == 50

\* a score whose base priority does not set templates below brand style
PriorityScoreFlat(example) ==
    LET source == MetadataGet(example.metadata, "source", "template")
        quality_score ==
            MetadataGet(example.metadata, "quality_score", DefaultQuality)
        priority ==
            CASE source = "jenosize_website" -> 1000
              [] OTHER -> 800
        relevance_boost ==
            IF (100 - example.distance) * 2 > 0
            THEN (100 - example.distance) * 2 ELSE 0
        quality_boost == quality_score * 2
    IN  priority + relevance_boost + quality_boost

\* get_priority_score, in tenths
PriorityScore(example) ==
    LET source == MetadataGet(example.metadata, "source", "template")
        quality_score ==
            MetadataGet(example.metadata, "quality_score", DefaultQuality)
        priority ==
            CASE source = "jenosize_website" -> 1000
              [] source = "jenosize_style" -> 800
              [] source = "manual" -> 600
              [] OTHER -> 400
        relevance_boost ==
            IF (100 - example.distance) * 2 > 0
            THEN (100 - example.distance) * 2 ELSE 0
        quality_boost == quality_score * 2
    IN  priority + relevance_boost + quality_boost

\* example['content'][:100]
ContentPrefix(example) == example.content[1]

\* the loop over all_candidates: the first example of every prefix is kept
RECURSIVE UniqueExamples(_, _)
UniqueExamples(all_candidates, seen_content) ==
    IF all_candidates = <<>> THEN <<>>
    ELSE IF ContentPrefix(Head(all_candidates)) \in seen_content
         THEN UniqueExamples(Tail(all_candidates), seen_content)
         ELSE <<Head(all_candidates)>> \o
              UniqueExamples(Tail(all_candidates),
                             seen_content
                                 \cup {ContentPrefix(Head(all_candidates))})

\* insert into a list sorted by descending score, after its equals
RECURSIVE InsertByScore(_, _)
InsertByScore(sorted, example) ==
    IF sorted = <<>> THEN <<example>>
    ELSE IF PriorityScore(Head(sorted)) >= PriorityScore(example)
         THEN <<Head(sorted)>> \o InsertByScore(Tail(sorted), example)
         ELSE <<example>> \o sorted

\* list.sort(key=get_priority_score, reverse=True): stable
RECURSIVE SortByScore(_)
SortByScore(examples) ==
    IF examples = <<>> THEN <<>>
    ELSE InsertByScore(SortByScore(SubSeq(examples, 1, Len(examples) - 1)),
                       examples[Len(examples)])

\* the filter of the third search; the empty filter stands for None
TemplateFilter(category, industry) ==
    LET keys == (IF category # NoValue THEN {"category"} ELSE {})
                  \cup (IF industry # NoValue /\ industry # "General"
                        THEN {"industry"} ELSE {})
    IN  [key \in keys |-> IF key = "category" THEN category ELSE industry]

\* the three searches of get_relevant_examples
JenosizeExamples(req) ==
    TierSearch(req.hits, [source |-> "jenosize_website"],
               req.n_results * 2, "jenosize_website" \in req.failed)

ManualExamples(req) ==
    TierSearch(req.hits, [source |-> "jenosize_style"],
               req.n_results, "jenosize_style" \in req.failed)

TemplateExamples(req) ==
    TierSearch(req.hits, TemplateFilter(req.category, req.industry),
               req.n_results, "template" \in req.failed)

AllCandidates(req) ==
    JenosizeExamples(req).value \o ManualExamples(req).value
        \o TemplateExamples(req).value

\* the candidates ranked as they come from the searches, duplicates kept
RankedExamplesUndeduplicated(req) == SortByScore(AllCandidates(req))

\* the examples ranked by get_relevant_examples before the cut
RankedExamples(req) == SortByScore(UniqueExamples(AllCandidates(req), {}))

FinalExamples(req) == FirstN(RankedExamples(req), req.n_results)

\* what the caller of get_relevant_examples gets: the list, or the
\* exception of a search
ExamplesOutcome(req) ==
    IF JenosizeExamples(req).raised \/ ManualExamples(req).raised
           \/ TemplateExamples(req).raised
    THEN [raised |-> TRUE, value |-> <<>>]
    ELSE [raised |-> FALSE, value |-> FinalExamples(req)]

(***************************************************************************)
(* ContentValidator.validate_content                                       *)
(*                                                                         *)
(* A content is a sequence of parts joined by single spaces; a part is a   *)
(* word, a sequence of characters, written `times` times with single       *)
(* spaces between the copies.  <<>> is the empty string, two parts of no   *)
(* copies are one space.                                                   *)
(***************************************************************************)
MaxParts == 2

MaxKeywords == 2

ContentWordPool ==
    {<<"A", "I">>, <<"r", "e", "t", "a", "i", "l", ".">>,
     <<"T", "O", "D", "O">>}

RepeatCounts == {0, 1, 99, 3000, 3001}

ContentParts == [word : ContentWordPool, times : RepeatCounts]

ValidatorContents == SeqsUpTo(ContentParts, MaxParts)

KeywordPool ==
    {<<"A", "I">>, <<"c", "l", "o", "u", "d">>, <<"t", "a", "i", "l">>}

\* the length of the longest keyword of the pool
MaxKeywordLen ==
    CHOOSE n \in {Len(keyword) : keyword \in KeywordPool} :
        \A keyword \in KeywordPool : Len(keyword) <= n

min_word_count == 100

max_word_count == 3000

MaxAvgWordsPerSentence == 25

\* str.lower(), one character
LowerChar(c) ==
    CASE c = "A" -> "a"
      [] c = "I" -> "i"
      [] c = "T" -> "t"
      [] c = "O" -> "o"
      [] c = "D" -> "d"
      [] OTHER -> c

LowerChars(chars) == [i \in 1..Len(chars) |-> LowerChar(chars[i])]

\* len(content.split())
RECURSIVE ContentWordCount(_)
ContentWordCount(content) ==
    IF content = <<>> THEN 0
    ELSE Head(content).times + ContentWordCount(Tail(content))

\* not content.strip()
ContentIsBlank(content) == ContentWordCount(content) = 0

\* n copies of word with single spaces between them
RECURSIVE RepeatWord(_, _)
RepeatWord(word, n) ==
    IF n = 0 THEN <<>>
    ELSE IF n = 1 THEN word
    ELSE word \o <<" ">> \o RepeatWord(word, n - 1)

Min(a, b) == IF a < b THEN a ELSE b

\* the characters of content with every part cut to at most cap copies: a
\* string of at most cap - 1 characters occurs in the cut text exactly when
\* it occurs in the whole text
RECURSIVE ContentChars(_, _)
ContentChars(content, cap) ==
    IF content = <<>> THEN <<>>
    ELSE LET first == RepeatWord(Head(content).word,
                                 Min(Head(content).times, cap))
         IN  IF Len(content) = 1 THEN first
             ELSE first \o <<" ">> \o ContentChars(Tail(content), cap)

\* needle in haystack
IsSubstring(needle, haystack) ==
    \E i \in 0..(Len(haystack) - Len(needle)) :
        SubSeq(haystack, i + 1, i + Len(needle)) = needle

\* the longest literal placeholder pattern, in characters
MaxPatternLen == 11

\* the placeholder_patterns, in the list's order
PlaceholderPatterns == <<"\\[.*?\\]", "TODO", "PLACEHOLDER", "Lorem ipsum">>

\* re.search(pattern, content, re.IGNORECASE)
PatternFound(pattern, chars) ==
    CASE pattern = "\\[.*?\\]" ->
             \E i \in 1..Len(chars) :
                 /\ chars[i] = "["
                 /\ \E k \in (i + 1)..Len(chars) : chars[k] = "]"
      [] pattern = "TODO" ->
             IsSubstring(<<"t", "o", "d", "o">>, LowerChars(chars))
      [] pattern = "PLACEHOLDER" ->
             IsSubstring(<<"p", "l", "a", "c", "e", "h", "o", "l", "d", "e",
                           "r">>, LowerChars(chars))
      [] OTHER ->
             IsSubstring(<<"l", "o", "r", "e", "m", " ", "i", "p", "s", "u",
                           "m">>, LowerChars(chars))

PlaceholderWarnings(chars) ==
    LET found == SelectSeq(PlaceholderPatterns,
                           LAMBDA pattern : PatternFound(pattern, chars))
    IN  [i \in 1..Len(found) |->
             [kind |-> "placeholder", detail |-> <<found[i]>>]]

\* the keywords with keyword.lower() not in content_lower, in list order
MissingKeywords(seo_keywords, content) ==
    LET content_lower == LowerChars(ContentChars(content, MaxKeywordLen + 1))
    IN  SelectSeq(seo_keywords,
                  LAMBDA keyword :
                      ~IsSubstring(LowerChars(keyword), content_lower))

KeywordWarnings(seo_keywords, content) ==
    IF seo_keywords # <<>> /\ MissingKeywords(seo_keywords, content) # <<>>
    THEN <<[kind |-> "seo_keywords_missing",
            detail |-> MissingKeywords(seo_keywords, content)]>>
    ELSE <<>>

Terminators == {".", "!", "?"}

\* the runs of sentence terminators in a word
TerminatorRuns(word) ==
    Cardinality({i \in 1..Len(word) :
                     /\ word[i] \in Terminators
                     /\ (i = 1 \/ word[i - 1] \notin Terminators)})

\* len(re.split(r'[.!?]+', content)): one more than the runs of terminators
RECURSIVE TerminatorRunsIn(_)
TerminatorRunsIn(content) ==
    IF content = <<>> THEN 0
    ELSE Head(content).times * TerminatorRuns(Head(content).word)
             + TerminatorRunsIn(Tail(content))

SentenceCount(content) == 1 + TerminatorRunsIn(content)

\* round(word_count / sentences, 2), in hundredths
AvgWordsPerSentence(word_count, sentences) ==
    (200 * word_count + sentences) \div (2 * sentences)

ReadabilityWarnings(word_count, sentences) ==
    IF word_count > MaxAvgWordsPerSentence * sentences
    THEN <<[kind |-> "long_sentences", detail |-> <<>>]>>
    ELSE <<>>

\* word_count < self.min_word_count, with <= in place of <
TooShortInclusive(word_count) == word_count <= min_word_count

TooShort(word_count) == word_count < min_word_count

TooLong(word_count) == word_count > max_word_count

LengthIssues(word_count) ==
    (IF TooShort(word_count)
     THEN <<[kind |-> "too_short",
             detail |-> <<word_count, min_word_count>>]>>
     ELSE <<>>)
        \o (IF TooLong(word_count)
            THEN <<[kind |-> "too_long",
                    detail |-> <<word_count, max_word_count>>]>>
            ELSE <<>>)

EmptyIssues(content) ==
    IF ContentIsBlank(content)
    THEN <<[kind |-> "empty", detail |-> <<>>]>>
    ELSE <<>>

\* validate_content with the missing keywords appended to issues
ValidateContentKeywordIssues(content, metadata) ==
    LET word_count == ContentWordCount(content)
        sentences == SentenceCount(content)
        chars == ContentChars(content, MaxPatternLen + 1)
    IN  [is_valid |-> ~(TooShort(word_count) \/ TooLong(word_count)
                            \/ ContentIsBlank(content)),
         issues |-> LengthIssues(word_count) \o EmptyIssues(content)
                        \o KeywordWarnings(metadata.seo_keywords, content),
         warnings |-> PlaceholderWarnings(chars)
                          \o ReadabilityWarnings(word_count, sentences),
         metrics |-> [word_count |-> word_count,
                      avg_words_per_sentence |->
                          AvgWordsPerSentence(word_count, sentences)]]

ValidateContent(content, metadata) ==
    LET word_count == ContentWordCount(content)
        sentences == SentenceCount(content)
        chars == ContentChars(content, MaxPatternLen + 1)
        issues == LengthIssues(word_count) \o EmptyIssues(content)
    IN  [is_valid |-> ~(TooShort(word_count) \/ TooLong(word_count)
                            \/ ContentIsBlank(content)),
         issues |-> issues,
         warnings |-> PlaceholderWarnings(chars)
                          \o KeywordWarnings(metadata.seo_keywords, content)
                          \o ReadabilityWarnings(word_count, sentences),
         metrics |-> [word_count |-> word_count,
                      avg_words_per_sentence |->
                          AvgWordsPerSentence(word_count, sentences)]]

VARIABLES
    request,            \* the caller's raw request
    pc,                 \* position of the request in the pipeline
    processed_input,    \* DataProcessor.process_input's result
    research_result,    \* the Coordinator's locally built research stub
    writing_result,     \* WriterAgent.process's result
    review_result,      \* ReviewerAgent.process's result
    rewriting_result,   \* _execute_rewriting's result
    result,             \* the FinalResult returned by generate_content
    calls,              \* inference calls issued so far, per agent
    log,                \* the stages' log lines, in order
    excel_file,         \* rows of the export log
    documents,          \* the rows of the documents table, in rowid order
    vectorizer_file,    \* vectorizer.pkl: <<>> or the pickled pair
    store,              \* each SimpleVectorStore instance's fields
    last_call,          \* the last call on a store and what it returned
    examples_request,   \* a get_relevant_examples call: its arguments and
                        \* what the index holds for its topic
    final_examples,     \* what the call returned
    validation_request, \* a validate_content call: content and metadata
    validation_result,  \* what the call returned
    excel_readable,     \* whether pd.read_excel can read the export log
    exporters,          \* each export_content call in progress: how far it
                        \* got and the DataFrame it loaded
    rebuild             \* the add_document call another thread is in:
                        \* <<>> or its store, its id and how far it got

pipelineVars ==
    <<request, pc, processed_input, research_result, writing_result,
      review_result, rewriting_result, result, calls, log, excel_file>>

storeVars == <<documents, vectorizer_file, store, last_call>>

examplesVars == <<examples_request, final_examples>>

validatorVars == <<validation_request, validation_result>>

exportVars == <<excel_readable, exporters>>

vars ==
    <<pipelineVars, storeVars, examplesVars, validatorVars, exportVars,
      rebuild>>

notPipelineVars ==
    <<storeVars, examplesVars, validatorVars, exportVars, rebuild>>

notStoreVars ==
    <<pipelineVars, examplesVars, validatorVars, exportVars, rebuild>>

notExamplesVars ==
    <<pipelineVars, storeVars, validatorVars, exportVars, rebuild>>

notValidatorVars ==
    <<pipelineVars, storeVars, examplesVars, exportVars, rebuild>>

\* what an export_content call in progress leaves alone
notExportVars ==
    <<request, pc, processed_input, research_result, writing_result,
      review_result, rewriting_result, result, calls, log, storeVars,
      examplesVars, validatorVars, rebuild>>

Agents == {"researcher", "writer", "reviewer", "rewriter"}

\* a store object that has not been constructed
NotConstructed ==
    [constructed |-> FALSE, vectorizer |-> <<>>, document_vectors |-> <<>>]

\* an empty data directory, no store constructed
InitStore ==
    /\ documents = <<>>
    /\ vectorizer_file = <<>>
    /\ store = [i \in Instances |-> NotConstructed]
    /\ last_call = <<>>

\* no request has been processed yet
InitPipeline ==
    /\ pc = "received"
    /\ processed_input = <<>>
    /\ research_result = <<>>
    /\ writing_result = <<>>
    /\ review_result = <<>>
    /\ rewriting_result = <<>>
    /\ result = <<>>
    /\ calls = [a \in Agents |-> 0]
    /\ log = <<>>
    /\ excel_file = <<>>

\* no get_relevant_examples call is under way
ExportRequests == {"r1", "r2"}

InitExport ==
    /\ excel_readable = TRUE
    /\ exporters = [r \in ExportRequests |-> [pc |-> "idle", df |-> <<>>]]

InitValidator ==
    /\ validation_request = [content |-> <<>>,
                             metadata |-> [seo_keywords |-> <<>>]]
    /\ validation_result = <<>>

InitExamples ==
    /\ examples_request = [hits |-> <<>>, n_results |-> 1,
                           category |-> NoValue, industry |-> NoValue,
                           failed |-> {}]
    /\ final_examples = <<>>

Init ==
    /\ request \in {[topic |-> t] : t \in RawTopics}
    /\ InitStore
    /\ InitPipeline
    /\ InitExamples
    /\ rebuild = <<>>
    /\ InitValidator
    /\ InitExport

\* api/main.py generate_content up to the call of the Coordinator
ProcessInput ==
    /\ pc = "received"
    /\ LET data == ProcessedInput(request)
       IN  IF ValidProcessedData(data)
           THEN /\ processed_input' = <<data>>
                /\ pc' = "start"
           ELSE /\ processed_input' = <<>>
                /\ pc' = "rejected"
    /\ UNCHANGED notPipelineVars
    /\ UNCHANGED <<request, research_result, writing_result, review_result,
                   rewriting_result, result, calls, log, excel_file>>

\* generate_content from its first line until WriterAgent.process awaits
\* the model: the research stub, _execute_writing, the Writer's validation
StartGeneration ==
    /\ pc = "start"
    /\ LET req == processed_input[1]
           research == SimplifiedResearch(req)
       IN  /\ research_result' = <<research>>
           /\ IF research.research_insights = <<>>
              THEN /\ pc' = "failed"
                   /\ calls' = calls
                   /\ log' = log \o <<"workflow: start", "writing: execute",
                                      "writer: start", "workflow: error">>
              ELSE /\ pc' = "writing"
                   /\ calls' = [calls EXCEPT !["writer"] = @ + 1]
                   /\ log' = log \o <<"workflow: start", "writing: execute",
                                      "writer: start">>
    /\ UNCHANGED notPipelineVars
    /\ UNCHANGED <<request, processed_input, writing_result, review_result,
                   rewriting_result, result, excel_file>>

\* a failed Writer call issued again instead of failing the request
WriterRaisesRetries ==
    /\ pc = "writing"
    /\ IF calls["writer"] < 2
       THEN /\ pc' = "writing"
            /\ calls' = [calls EXCEPT !["writer"] = @ + 1]
            /\ log' = log \o <<"writer: error">>
       ELSE /\ pc' = "failed"
            /\ calls' = calls
            /\ log' = log \o <<"writer: error", "workflow: error">>
    /\ UNCHANGED notPipelineVars
    /\ UNCHANGED <<request, processed_input, research_result, writing_result,
                   review_result, rewriting_result, result, excel_file>>

\* the Writer's inference call raises: generate_response and generate_content
\* log and re-raise
WriterRaises ==
    /\ pc = "writing"
    /\ pc' = "failed"
    /\ log' = log \o <<"writer: error", "workflow: error">>
    /\ UNCHANGED notPipelineVars
    /\ UNCHANGED <<request, processed_input, research_result, writing_result,
                   review_result, rewriting_result, result, calls, excel_file>>

\* the Writer's inference call returns article_content: the rest of
\* WriterAgent.process, then _execute_review up to the Reviewer's await
WriterReturns(article_content) ==
    /\ pc = "writing"
    /\ LET writing == WritingResult(processed_input[1], article_content)
       IN  /\ writing_result' = <<writing>>
           /\ IF writing.article_content = EmptyText
              THEN /\ pc' = "failed"
                   /\ calls' = calls
                   /\ log' = log \o <<"writer: completed", "review: execute",
                                      "reviewer: start", "workflow: error">>
              ELSE /\ pc' = "reviewing"
                   /\ calls' = [calls EXCEPT !["reviewer"] = @ + 1]
                   /\ log' = log \o <<"writer: completed", "review: execute",
                                      "reviewer: start">>
    /\ UNCHANGED notPipelineVars
    /\ UNCHANGED <<request, processed_input, research_result, review_result,
                   rewriting_result, result, excel_file>>

\* a failed Reviewer call swallowed: the pipeline goes on with a default review
ReviewerRaisesSwallowed ==
    /\ pc = "reviewing"
    /\ review_result' =
           <<ReviewResult([article_content |-> writing_result[1].article_content,
                           content_metadata |->
                               writing_result[1].content_metadata],
                          << <<>> >>)>>
    /\ pc' = "rewriting"
    /\ calls' = [calls EXCEPT !["rewriter"] = @ + 1]
    /\ log' = log \o <<"reviewer: error", "rewriting: execute",
                       "rewriter: start">>
    /\ UNCHANGED notPipelineVars
    /\ UNCHANGED <<request, processed_input, research_result, writing_result,
                   rewriting_result, result, excel_file>>

ReviewerRaises ==
    /\ pc = "reviewing"
    /\ pc' = "failed"
    /\ log' = log \o <<"reviewer: error", "workflow: error">>
    /\ UNCHANGED notPipelineVars
    /\ UNCHANGED <<request, processed_input, research_result, writing_result,
                   review_result, rewriting_result, result, calls, excel_file>>

\* the Rewrite stage entered only when the review asks for a revision, as
\* _execute_refinement does
ReviewerReturnsSkipping(review_feedback) ==
    /\ pc = "reviewing"
    /\ LET review ==
               ReviewResult([article_content |->
                                 writing_result[1].article_content,
                             content_metadata |->
                                 writing_result[1].content_metadata],
                            review_feedback)
           final_result ==
               RewritingStageResult(
                   writing_result[1],
                   RewriteFailed(writing_result[1].article_content))
       IN  /\ review_result' = <<review>>
           /\ IF review.quality_assessment.needs_revision
              THEN /\ pc' = "rewriting"
                   /\ calls' = [calls EXCEPT !["rewriter"] = @ + 1]
                   /\ log' = log \o <<"reviewer: completed",
                                      "rewriting: execute", "rewriter: start">>
                   /\ UNCHANGED <<rewriting_result, result>>
              ELSE /\ pc' = "assembled"
                   /\ calls' = calls
                   /\ log' = log \o <<"reviewer: completed">>
                   /\ rewriting_result' = <<final_result>>
                   /\ result' = <<AssembleResult(research_result[1], review,
                                                 final_result)>>
    /\ UNCHANGED notPipelineVars
    /\ UNCHANGED <<request, processed_input, research_result, writing_result,
                   excel_file>>

\* the Reviewer's inference call returns review_feedback: the rest of
\* ReviewerAgent.process, then _execute_rewriting up to the Rewriter's await
ReviewerReturns(review_feedback) ==
    /\ pc = "reviewing"
    /\ review_result' =
           <<ReviewResult([article_content |-> writing_result[1].article_content,
                           content_metadata |->
                               writing_result[1].content_metadata],
                          review_feedback)>>
    /\ pc' = "rewriting"
    /\ calls' = [calls EXCEPT !["rewriter"] = @ + 1]
    /\ log' = log \o <<"reviewer: completed", "rewriting: execute",
                       "rewriter: start">>
    /\ UNCHANGED notPipelineVars
    /\ UNCHANGED <<request, processed_input, research_result, writing_result,
                   rewriting_result, result, excel_file>>

\* the Rewriter's inference call returns response: the rest of
\* rewrite_content and _execute_rewriting, then the assembly of the result
RewriterReturns(response) ==
    /\ pc = "rewriting"
    /\ LET rewriting == RewriteSucceeded(writing_result[1].article_content,
                                         response)
           final_result == RewritingStageResult(writing_result[1], rewriting)
       IN  /\ rewriting_result' = <<final_result>>
           /\ result' = <<AssembleResult(research_result[1], review_result[1],
                                         final_result)>>
    /\ pc' = "assembled"
    /\ log' = log \o <<"rewriter: completed">>
    /\ UNCHANGED notPipelineVars
    /\ UNCHANGED <<request, processed_input, research_result, writing_result,
                   review_result, calls, excel_file>>

\* the Rewriter's exception let through to generate_content
RewriterRaisesPropagates ==
    /\ pc = "rewriting"
    /\ pc' = "failed"
    /\ log' = log \o <<"rewriter: error", "workflow: error">>
    /\ UNCHANGED notPipelineVars
    /\ UNCHANGED <<request, processed_input, research_result, writing_result,
                   review_result, rewriting_result, result, calls, excel_file>>

\* the Rewriter's inference call raises: rewrite_content catches it
RewriterRaises ==
    /\ pc = "rewriting"
    /\ LET rewriting == RewriteFailed(writing_result[1].article_content)
           final_result == RewritingStageResult(writing_result[1], rewriting)
       IN  /\ rewriting_result' = <<final_result>>
           /\ result' = <<AssembleResult(research_result[1], review_result[1],
                                         final_result)>>
    /\ pc' = "assembled"
    /\ log' = log \o <<"rewriter: error">>
    /\ UNCHANGED notPipelineVars
    /\ UNCHANGED <<request, processed_input, research_result, writing_result,
                   review_result, calls, excel_file>>

\* content_exporter.export_content writes the row and returns the path
ExportSucceeds ==
    /\ pc = "assembled"
    /\ excel_file' = Append(excel_file, PrepareExportData(result[1]))
    /\ result' = <<MergeDict(result[1], [excel_export_path |-> ExcelPath])>>
    /\ pc' = "done"
    /\ log' = log \o <<"export: returned">>
    /\ UNCHANGED notPipelineVars
    /\ UNCHANGED <<request, processed_input, research_result, writing_result,
                   review_result, rewriting_result, calls>>

\* the export failure raised to the caller of generate_content
ExportFailsPropagates ==
    /\ pc = "assembled"
    /\ result' = <<>>
    /\ pc' = "failed"
    /\ log' = log \o <<"workflow: error">>
    /\ UNCHANGED notPipelineVars
    /\ UNCHANGED <<request, processed_input, research_result, writing_result,
                   review_result, rewriting_result, calls, excel_file>>

\* export_content fails: it catches the exception itself and returns the
\* failure text, which generate_content stores like a path
ExportFails ==
    /\ pc = "assembled"
    /\ result' =
           <<MergeDict(result[1], [excel_export_path |-> ExportFailedText])>>
    /\ pc' = "done"
    /\ log' = log \o <<"export: returned">>
    /\ UNCHANGED notPipelineVars
    /\ UNCHANGED <<request, processed_input, research_result, writing_result,
                   review_result, rewriting_result, calls, excel_file>>

Next ==
    \/ ProcessInput
    \/ StartGeneration
    \/ WriterRaises
    \/ \E article_content \in ArticleTexts : WriterReturns(article_content)
    \/ ReviewerRaises
    \/ \E review_feedback \in ReviewTexts : ReviewerReturns(review_feedback)
    \/ \E response \in ArticleTexts : RewriterReturns(response)
    \/ RewriterRaises
    \/ ExportSucceeds
    \/ ExportFails

Spec == Init /\ [][Next]_vars

(***************************************************************************)
(* The retrieval store's operations.                                       *)
(***************************************************************************)
\* the pair _save_vectorizer pickles
PickledIndex(st) ==
    [vectorizer |-> st.vectorizer[1], document_vectors |-> st.document_vectors]

\* SimpleVectorStore(): _init_database, then _load_or_create_vectorizer;
\* an unreadable pickle falls back to a new index
Construct(i, load_ok) ==
    /\ ~store[i].constructed
    /\ IF vectorizer_file # <<>> /\ load_ok
       THEN /\ store' = [store EXCEPT ![i] =
                            [constructed |-> TRUE,
                             vectorizer |-> <<vectorizer_file[1].vectorizer>>,
                             document_vectors |->
                                 vectorizer_file[1].document_vectors]]
            /\ vectorizer_file' = vectorizer_file
            /\ last_call' = <<[op |-> "construct", instance |-> i,
                               raised |-> FALSE]>>
       ELSE LET rebuilt == RebuiltIndex(store[i], documents)
            IN  /\ store' = IF rebuilt.raised THEN store
                             ELSE [store EXCEPT ![i] =
                                      [constructed |-> TRUE,
                                       vectorizer |-> rebuilt.vectorizer,
                                       document_vectors |->
                                           rebuilt.document_vectors]]
                /\ vectorizer_file' =
                       IF documents = <<>> \/ rebuilt.raised
                       THEN vectorizer_file
                       ELSE <<PickledIndex(store'[i])>>
                /\ last_call' = <<[op |-> "construct", instance |-> i,
                                   raised |-> rebuilt.raised]>>
    /\ UNCHANGED documents
    /\ UNCHANGED notStoreVars

\* add_document: the id, INSERT OR REPLACE and commit, then
\* _create_new_vectorizer; save_ok is whether the pickle could be written
AddDocument(i, content, metadata, doc_id, save_ok) ==
    /\ store[i].constructed
    /\ LET id == IF doc_id = NoId
                 THEN GeneratedId(Len(documents) + 1)
                 ELSE doc_id
           table == InsertOrReplace(documents,
                                    [id |-> id, content |-> content,
                                     metadata |-> metadata])
           rebuilt == RebuiltIndex(store[i], table)
       IN  /\ Len(table) <= MaxDocs
           /\ documents' = table
           /\ store' = [store EXCEPT ![i] =
                           [constructed |-> TRUE,
                            vectorizer |-> rebuilt.vectorizer,
                            document_vectors |-> rebuilt.document_vectors]]
           /\ vectorizer_file' =
                  IF rebuilt.raised \/ ~save_ok
                  THEN vectorizer_file
                  ELSE <<PickledIndex(store'[i])>>
           /\ last_call' = <<[op |-> "add_document", instance |-> i,
                              raised |-> rebuilt.raised, value |-> id]>>
    /\ UNCHANGED notStoreVars

\* add_document when the database write raises: nothing is committed
AddDocumentWriteFails(i) ==
    /\ store[i].constructed
    /\ last_call' = <<[op |-> "add_document", instance |-> i,
                       raised |-> TRUE, value |-> NoId]>>
    /\ UNCHANGED <<documents, vectorizer_file, store>>
    /\ UNCHANGED notStoreVars

\* get_document_count
GetDocumentCount == Len(documents)

\* a clear that drops the index but whose DELETE is never committed
ClearCollectionKeepsRows(i) ==
    /\ store[i].constructed
    /\ documents' = documents
    /\ store' = [store EXCEPT ![i] =
                    [constructed |-> TRUE, vectorizer |-> <<>>,
                     document_vectors |-> <<>>]]
    /\ vectorizer_file' = <<>>
    /\ last_call' = <<[op |-> "clear_collection", instance |-> i,
                       raised |-> FALSE]>>
    /\ UNCHANGED notStoreVars

\* clear_collection
ClearCollection(i) ==
    /\ store[i].constructed
    /\ documents' = <<>>
    /\ store' = [store EXCEPT ![i] =
                    [constructed |-> TRUE, vectorizer |-> <<>>,
                     document_vectors |-> <<>>]]
    /\ vectorizer_file' = <<>>
    /\ last_call' = <<[op |-> "clear_collection", instance |-> i,
                       raised |-> FALSE]>>
    /\ UNCHANGED notStoreVars

\* search
Search(i, query, n_results, filter_metadata) ==
    /\ store[i].constructed
    /\ \E results \in SearchResults(store[i], documents, query, n_results,
                                    filter_metadata) :
           last_call' = <<[op |-> "search", instance |-> i, raised |-> FALSE,
                           query |-> query, n_results |-> n_results,
                           filter_metadata |-> filter_metadata,
                           value |-> results]>>
    /\ UNCHANGED <<documents, vectorizer_file, store>>
    /\ UNCHANGED notStoreVars

\* the one store of the process: rag_system's vector_store
StoreInstances == {"rag"}

\* the data directory is writable: _save_vectorizer's open() succeeds
PickleWritable == {TRUE}

StoreInit ==
    /\ request = [topic |-> <<"a", "a", "a">>]
    /\ InitStore
    /\ InitPipeline
    /\ InitExamples
    /\ rebuild = <<>>
    /\ InitValidator
    /\ InitExport

StoreNext ==
    \E i \in StoreInstances :
        \/ \E load_ok \in BOOLEAN : Construct(i, load_ok)
        \/ \E doc \in SampleDocuments, doc_id \in ExplicitIds \cup {NoId},
              save_ok \in PickleWritable :
               AddDocument(i, doc.content, doc.metadata, doc_id, save_ok)
        \/ AddDocumentWriteFails(i)
        \/ ClearCollection(i)
        \/ \E query \in Queries, n_results \in 1..MaxResults,
              filter_metadata \in Filters \cup {NoFilter} :
               Search(i, query, n_results, filter_metadata)

StoreSpec == StoreInit /\ [][StoreNext]_vars

(***************************************************************************)
(* add_document in one thread while another thread searches the same       *)
(* store: the statements of add_document and _create_new_vectorizer that   *)
(* write a field of the store, one step each.                              *)
(***************************************************************************)
\* add_document up to conn.commit()
AddDocumentInsert(i, content, metadata, doc_id) ==
    /\ store[i].constructed
    /\ rebuild = <<>>
    /\ LET id == IF doc_id = NoId
                 THEN GeneratedId(Len(documents) + 1)
                 ELSE doc_id
           table == InsertOrReplace(documents,
                                    [id |-> id, content |-> content,
                                     metadata |-> metadata])
       IN  /\ Len(table) <= MaxDocs
           /\ documents' = table
           /\ rebuild' = <<[instance |-> i, id |-> id, stage |-> "inserted"]>>
    /\ UNCHANGED <<vectorizer_file, store, last_call>>
    /\ UNCHANGED <<pipelineVars, examplesVars, validatorVars, exportVars>>

\* _create_new_vectorizer: self.vectorizer = TfidfVectorizer(...)
RebuildReplacesVectorizer ==
    /\ rebuild # <<>>
    /\ rebuild[1].stage = "inserted"
    /\ store' = [store EXCEPT ![rebuild[1].instance].vectorizer =
                                  <<UnfittedVectorizer>>]
    /\ rebuild' = <<[rebuild[1] EXCEPT !.stage = "replaced"]>>
    /\ UNCHANGED <<documents, vectorizer_file, last_call>>
    /\ UNCHANGED <<pipelineVars, examplesVars, validatorVars, exportVars>>

\* fit_transform has fitted self.vectorizer and not yet returned
RebuildFitsVectorizer ==
    /\ rebuild # <<>>
    /\ rebuild[1].stage = "replaced"
    /\ ~FitRaises(ContentsOf(documents))
    /\ store' = [store EXCEPT ![rebuild[1].instance].vectorizer =
                                  <<FittedVectorizer(ContentsOf(documents))>>]
    /\ rebuild' = <<[rebuild[1] EXCEPT !.stage = "fitted"]>>
    /\ UNCHANGED <<documents, vectorizer_file, last_call>>
    /\ UNCHANGED <<pipelineVars, examplesVars, validatorVars, exportVars>>

\* self.document_vectors = ..., _save_vectorizer, add_document returns
RebuildAssignsVectors ==
    /\ rebuild # <<>>
    /\ rebuild[1].stage = "fitted"
    /\ LET i == rebuild[1].instance
       IN  /\ store' = [store EXCEPT ![i].document_vectors =
                           <<TransformAll(store[i].vectorizer[1],
                                          ContentsOf(documents))>>]
           /\ vectorizer_file' = <<PickledIndex(store'[i])>>
           /\ last_call' = <<[op |-> "add_document", instance |-> i,
                              raised |-> FALSE, value |-> rebuild[1].id]>>
    /\ rebuild' = <<>>
    /\ UNCHANGED documents
    /\ UNCHANGED <<pipelineVars, examplesVars, validatorVars, exportVars>>

\* fit_transform raises: add_document logs and re-raises
RebuildAbandoned ==
    /\ rebuild # <<>>
    /\ rebuild[1].stage = "replaced"
    /\ FitRaises(ContentsOf(documents))
    /\ last_call' = <<[op |-> "add_document", instance |-> rebuild[1].instance,
                       raised |-> TRUE, value |-> rebuild[1].id]>>
    /\ rebuild' = <<>>
    /\ UNCHANGED <<documents, vectorizer_file, store>>
    /\ UNCHANGED <<pipelineVars, examplesVars, validatorVars, exportVars>>

ConcurrentNext ==
    \/ \E i \in StoreInstances :
           \/ \E load_ok \in BOOLEAN : Construct(i, load_ok)
           \/ \E doc \in SampleDocuments, doc_id \in ExplicitIds \cup {NoId} :
                  AddDocumentInsert(i, doc.content, doc.metadata, doc_id)
           \/ \E query \in Queries, n_results \in 1..MaxResults,
                 filter_metadata \in Filters \cup {NoFilter} :
                  Search(i, query, n_results, filter_metadata)
    \/ RebuildReplacesVectorizer
    \/ RebuildFitsVectorizer
    \/ RebuildAssignsVectors
    \/ RebuildAbandoned

ConcurrentSpec == StoreInit /\ [][ConcurrentNext]_vars

(***************************************************************************)
(* Several SimpleVectorStore objects over the one database and the one     *)
(* vectorizer.pkl: rag_system's store and the store the scraper and the    *)
(* manual-content loader construct for themselves                          *)
(***************************************************************************)
\* the documents the instances add: the two with indexed terms and no
\* category
SharedDocuments ==
    {doc \in SampleDocuments :
         doc.content # <<"the">> /\ "category" \notin DOMAIN doc.metadata}

SharedIds == {"x", NoId}

SharedQueries == {<<"ai">>, <<"retail">>}

SharedNext ==
    \E i \in Instances :
        \/ \E load_ok \in BOOLEAN : Construct(i, load_ok)
        \/ \E doc \in SharedDocuments, doc_id \in SharedIds,
              save_ok \in PickleWritable :
               AddDocument(i, doc.content, doc.metadata, doc_id, save_ok)
        \/ \E query \in SharedQueries, n_results \in 1..MaxResults :
               Search(i, query, n_results, NoFilter)

SharedSpec == StoreInit /\ [][SharedNext]_vars

(***************************************************************************)
(* Style example selection.                                                *)
(***************************************************************************)
\* the calls of get_relevant_examples: any part of the pool indexed, any
\* arguments, any of the three searches ending in its except branch
ExamplesRequests ==
    [hits : {SubsequenceAt(RankedPool, S) :
                 S \in SUBSET (1..Len(RankedPool))},
     n_results : 1..MaxExamples,
     category : Categories \cup {NoValue},
     industry : Industries \cup {NoValue},
     failed : SUBSET Tiers]

\* get_relevant_examples
GetRelevantExamples ==
    /\ final_examples = <<>>
    /\ final_examples' = <<ExamplesOutcome(examples_request)>>
    /\ UNCHANGED examples_request
    /\ UNCHANGED notExamplesVars

ExamplesInit ==
    /\ request = [topic |-> <<"a", "a", "a">>]
    /\ InitStore
    /\ InitPipeline
    /\ examples_request \in ExamplesRequests
    /\ final_examples = <<>>
    /\ rebuild = <<>>
    /\ InitValidator
    /\ InitExport

ExamplesNext == GetRelevantExamples

ExamplesSpec == ExamplesInit /\ [][ExamplesNext]_vars

(***************************************************************************)
(* validate_content as a function of its arguments                         *)
(***************************************************************************)
ValidationRequests ==
    [content : ValidatorContents,
     metadata : [seo_keywords : SeqsUpTo(KeywordPool, MaxKeywords)]]

\* content_validator.validate_content(content, metadata)
ValidateContentCall ==
    /\ validation_result = <<>>
    /\ validation_result' =
           <<ValidateContent(validation_request.content,
                             validation_request.metadata)>>
    /\ UNCHANGED validation_request
    /\ UNCHANGED notValidatorVars

ValidatorInit ==
    /\ request = [topic |-> <<"a", "a", "a">>]
    /\ InitStore
    /\ InitPipeline
    /\ InitExamples
    /\ rebuild = <<>>
    /\ validation_request \in ValidationRequests
    /\ validation_result = <<>>
    /\ InitExport

ValidatorNext == ValidateContentCall

ValidatorSpec == ValidatorInit /\ [][ValidatorNext]_vars

(***************************************************************************)
(* ContentExporter.export_content, read and write as separate steps: two   *)
(* requests export to the one history file, which other runs left in any   *)
(* state                                                                   *)
(***************************************************************************)
MaxLogRows == 2

ExportTopics == {<<"a", "a", "a">>, <<"a", " ", "a">>}

\* the row _prepare_export_data builds for a result about topic
ExportRow(topic) ==
    PrepareExportData(
        [content_metadata |-> [topic |-> topic],
         final_content |-> <<"Body text.">>,
         quality_score |-> FallbackQuality,
         generation_metadata |-> [rewriting_applied |-> FALSE]])

\* the row of request r
RowOf(r) == ExportRow(IF r = "r1" THEN <<"a", "a", "a">> ELSE <<"a", " ", "a">>)

\* pd.read_excel, or the empty DataFrame when the file cannot be read
ExportLoad(r) ==
    /\ exporters[r].pc = "idle"
    /\ exporters' =
           [exporters EXCEPT
               ![r] = [pc |-> "loaded",
                       df |-> IF excel_readable THEN excel_file ELSE <<>>]]
    /\ UNCHANGED <<excel_file, excel_readable>>
    /\ UNCHANGED notExportVars

\* pd.concat and df.to_excel: the file becomes the loaded rows and the new one
ExportSave(r) ==
    /\ exporters[r].pc = "loaded"
    /\ excel_file' = Append(exporters[r].df, RowOf(r))
    /\ excel_readable' = TRUE
    /\ exporters' = [exporters EXCEPT ![r].pc = "returned"]
    /\ UNCHANGED notExportVars

\* df.to_excel raises: "Export failed: ..." is returned
ExportSaveFails(r) ==
    /\ exporters[r].pc = "loaded"
    /\ exporters' = [exporters EXCEPT ![r].pc = "failed"]
    /\ UNCHANGED <<excel_file, excel_readable>>
    /\ UNCHANGED notExportVars

ExportInit ==
    /\ request = [topic |-> <<"a", "a", "a">>]
    /\ InitStore
    /\ pc = "received"
    /\ processed_input = <<>>
    /\ research_result = <<>>
    /\ writing_result = <<>>
    /\ review_result = <<>>
    /\ rewriting_result = <<>>
    /\ result = <<>>
    /\ calls = [a \in Agents |-> 0]
    /\ log = <<>>
    /\ excel_file \in SeqsUpTo({ExportRow(t) : t \in ExportTopics}, MaxLogRows)
    /\ excel_readable \in BOOLEAN
    /\ exporters = [r \in ExportRequests |-> [pc |-> "idle", df |-> <<>>]]
    /\ InitExamples
    /\ InitValidator
    /\ rebuild = <<>>

ExportNext ==
    \E r \in ExportRequests :
        \/ ExportLoad(r)
        \/ ExportSave(r)
        \/ ExportSaveFails(r)

ExportSpec == ExportInit /\ [][ExportNext]_vars
(***************************************************************************)
(* Claims about the pipeline                                               *)
(***************************************************************************)
HasLog(entry) == \E i \in 1..Len(log) : log[i] = entry

IsPrefix(s, t) == Len(s) <= Len(t) /\ SubSeq(t, 1, Len(s)) = s

\* the log lines of a run in which no stage raises to the Coordinator
FullLogs ==
    {<<"workflow: start", "writing: execute", "writer: start",
       "writer: completed", "review: execute", "reviewer: start",
       "reviewer: completed", "rewriting: execute", "rewriter: start",
       outcome, "export: returned">> :
         outcome \in {"rewriter: completed", "rewriter: error"}}

\* C1: once Write and Review have succeeded the stages run once each in the
\* order Write, Review, Rewrite, assembly, export: the log is a prefix of
\* the one full run, the Rewrite stage has been entered whatever
\* needs_revision is, and a finished request has logged every stage once.
C1_FixedStageOrder ==
    review_result # <<>> =>
        /\ \E full \in FullLogs : IsPrefix(log, full)
        /\ HasLog("rewriting: execute")
        /\ pc \in {"rewriting", "assembled", "done"}
        /\ pc = "done" => log \in FullLogs
        /\ pc = "assembled" => Len(log) = 10

C1_Witness ==
    /\ pc = "done"
    /\ ~review_result[1].quality_assessment.needs_revision
    /\ HasLog("rewriter: completed")

Raised ==
    HasLog("writer: error") \/ HasLog("reviewer: error")
        \/ (HasLog("workflow: error") /\ ~HasLog("rewriter: error"))

\* C2: when the Writer or the Reviewer raises, the request fails: no later
\* stage is called, no result is assembled and nothing is exported.
C2_WriteReviewFailureAborts ==
    Raised =>
        /\ pc = "failed"
        /\ result = <<>>
        /\ rewriting_result = <<>>
        /\ review_result = <<>>
        /\ calls["rewriter"] = 0
        /\ HasLog("writer: error") => calls["reviewer"] = 0
        /\ excel_file = <<>>
        /\ ~HasLog("export: returned")

C2_Witness ==
    /\ pc = "failed"
    /\ HasLog("reviewer: error")
    /\ calls["reviewer"] = 1

\* C3: when the Rewriter's inference call raises, the request goes on to
\* assembly and export and returns a result with workflow_completed true.
C3_RewriterFailureContinues ==
    HasLog("rewriter: error") =>
        /\ pc \in {"assembled", "done"}
        /\ result # <<>>
        /\ result[1].generation_metadata.workflow_completed
        /\ pc = "done" => HasLog("export: returned")

C3_Witness ==
    /\ pc = "done"
    /\ HasLog("rewriter: error")
    /\ result[1].generation_metadata.workflow_completed

\* C4: quality_score is 10.0 when the rewrite stage reported
\* rewriting_applied and 8.5 otherwise, never another value.
C4_QualityScoreRule ==
    result # <<>> =>
        result[1].quality_score =
            IF rewriting_result[1].rewriting_data.rewriting_applied
            THEN 100 ELSE 85

C4_Witness ==
    /\ pc = "done"
    /\ ~rewriting_result[1].rewriting_data.rewriting_applied
    /\ result[1].quality_score = 85
    /\ review_result[1].quality_assessment.overall_score = 98

AssembledKeys ==
    {"final_content", "content_metadata", "quality_score", "workflow_data",
     "generation_metadata"}

\* C5: the step that ends the export of an assembled result always ends the
\* request with the assembled fields unchanged; when nothing was written to
\* the export log the failure text is stored in excel_export_path.
C5_ExportFailureRecorded ==
    [][pc = "assembled" =>
          /\ pc' = "done"
          /\ AssembledKeys \cup {"excel_export_path"} = DOMAIN result'[1]
          /\ \A k \in AssembledKeys : result'[1][k] = result[1][k]
          /\ excel_file' = excel_file =>
                 result'[1].excel_export_path = ExportFailedText]_vars

C5_Witness ==
    /\ pc = "done"
    /\ result[1].excel_export_path = ExportFailedText
    /\ excel_file = <<>>

\* C6: each of Writer, Reviewer and Rewriter calls the inference client at
\* most once per request, the Researcher never, and a failed call ends the
\* request without being issued again.
C6_AtMostOneCallPerAgent ==
    /\ \A a \in Agents : calls[a] <= 1
    /\ calls["researcher"] = 0
    /\ calls["writer"] + calls["reviewer"] + calls["rewriter"] <= 3
    /\ HasLog("writer: error") \/ HasLog("reviewer: error") => pc = "failed"

C6_Witness ==
    /\ pc = "failed"
    /\ HasLog("writer: error")
    /\ calls["writer"] = 1

HighQualityThreshold == 95

\* C7: when the Reviewer's score is at least 9.5 the Rewriter makes no
\* inference call and returns the draft unchanged with rewriting_applied
\* false and target_quality_score 10.0.
C7_HighScoreShortCircuit ==
    (review_result # <<>>
        /\ review_result[1].quality_assessment.overall_score
               >= HighQualityThreshold) =>
        /\ calls["rewriter"] = 0
        /\ rewriting_result # <<>> =>
               /\ rewriting_result[1].rewriting_data.rewritten_content =
                      writing_result[1].article_content
               /\ ~rewriting_result[1].rewriting_data.rewriting_applied
               /\ rewriting_result[1].rewriting_data.target_quality_score = 100

\* C8: the topic in the returned content_metadata is the request's topic as
\* cleaned by input processing, on every path.
C8_TopicPreserved ==
    result # <<>> =>
        /\ result[1].content_metadata.topic = CleanText(request.topic)
        /\ result[1].content_metadata.topic = processed_input[1].topic

C8_Witness ==
    /\ pc = "done"
    /\ request.topic # CleanText(request.topic)
    /\ result[1].content_metadata.topic = CleanText(request.topic)
    /\ HasLog("rewriter: error")

\* the vector the index holds for a document of the current table
VectorOfCurrent(content) ==
    Transform(FittedVectorizer(ContentsOf(documents)), content)

\* C9: after add_document or clear_collection returns successfully, the
\* calling store's index has exactly one vector per stored document, built
\* from the document's current content, in the table's order; after
\* clear_collection there are no documents and no index.
C9_IndexConsistentWithTable ==
    (/\ last_call # <<>>
     /\ last_call[1].op \in {"add_document", "clear_collection"}
     /\ ~last_call[1].raised) =>
        LET st == store[last_call[1].instance]
        IN  /\ last_call[1].op = "clear_collection" => documents = <<>>
            /\ last_call[1].op = "add_document" => documents # <<>>
            /\ IF documents = <<>>
               THEN st.vectorizer = <<>> /\ st.document_vectors = <<>>
               ELSE /\ st.vectorizer # <<>>
                    /\ st.vectorizer[1].fitted
                    /\ st.document_vectors # <<>>
                    /\ Len(st.document_vectors[1]) = Len(documents)
                    /\ \A k \in 1..Len(documents) :
                           st.document_vectors[1][k] =
                               VectorOfCurrent(documents[k].content)

\* add_document("x") has replaced the row "x" that preceded "doc_2"
C9_Witness ==
    /\ last_call # <<>>
    /\ last_call[1].op = "add_document"
    /\ ~last_call[1].raised
    /\ last_call[1].value = "x"
    /\ Len(documents) = 2
    /\ documents[1].id = "doc_2"
    /\ documents[2].id = "x"
    /\ documents[1].content # documents[2].content
    /\ Len(store[last_call[1].instance].document_vectors[1]) = 2

\* C10: with a non-empty filter, search returns only documents whose
\* metadata holds every filter key with an equal value, each result's
\* content, metadata and id are those of one stored document, and on an
\* empty corpus search returns the empty sequence.
C10_SearchHonoursFilter ==
    (last_call # <<>> /\ last_call[1].op = "search") =>
        LET returned == last_call[1].value
            filter_metadata == last_call[1].filter_metadata
        IN  /\ documents = <<>> => returned = <<>>
            /\ DOMAIN filter_metadata # {} =>
                   \A k \in 1..Len(returned) :
                       /\ \A key \in DOMAIN filter_metadata :
                              /\ key \in DOMAIN returned[k].metadata
                              /\ returned[k].metadata[key] =
                                     filter_metadata[key]
                       /\ \E j \in 1..Len(documents) :
                              /\ documents[j].id = returned[k].id
                              /\ documents[j].content = returned[k].content
                              /\ documents[j].metadata = returned[k].metadata

\* a two-key filter keeps one of two documents that both match the query;
\* the other lacks a filter key
C10_Witness ==
    /\ last_call # <<>>
    /\ last_call[1].op = "search"
    /\ DOMAIN last_call[1].filter_metadata = {"source", "category"}
    /\ last_call[1].query = <<"ai">>
    /\ Len(documents) = 2
    /\ \A j \in 1..2 : <<"ai">> \in Features(documents[j].content)
    /\ \E j \in 1..2 : "category" \notin DOMAIN documents[j].metadata
    /\ Len(last_call[1].value) = 1
    /\ "category" \in DOMAIN last_call[1].value[1].metadata
\* a similarity of 1, a distance of 0
IsExactMatch(similarity) == similarity.num = similarity.den

\* C11: a search for the content of the document that add_document has just
\* stored, with no filter and no cut by n_results, returns that document
\* with distance 0.
C11_RoundTrip ==
    [][(/\ last_call # <<>>
        /\ last_call[1].op = "add_document"
        /\ ~last_call[1].raised
        /\ last_call'[1].op = "search"
        /\ DOMAIN last_call'[1].filter_metadata = {}
        /\ last_call'[1].n_results >= Len(documents)
        /\ last_call'[1].query = documents[Len(documents)].content) =>
           \E k \in 1..Len(last_call'[1].value) :
               /\ last_call'[1].value[k].id = last_call[1].value
               /\ IsExactMatch(last_call'[1].value[k].similarity)]_vars
\* C12: after clear_collection returns the document count is 0 and the
\* store holds no index; while the table stays empty every search returns
\* the empty sequence; the next add_document builds the index from the
\* added document alone.
C12_ClearDropsEverything ==
    [][/\ (last_call'[1].op = "clear_collection" /\ ~last_call'[1].raised) =>
              /\ GetDocumentCount' = 0
              /\ store'[last_call'[1].instance].vectorizer = <<>>
              /\ store'[last_call'[1].instance].document_vectors = <<>>
       /\ (last_call'[1].op = "search" /\ documents = <<>>) =>
              last_call'[1].value = <<>>
       /\ (/\ last_call'[1].op = "add_document"
           /\ ~last_call'[1].raised
           /\ documents = <<>>) =>
              LET st == store'[last_call'[1].instance]
                  added == documents'[1].content
              IN  /\ Len(documents') = 1
                  /\ st.vectorizer[1].vocabulary = Features(added)
                  /\ st.document_vectors =
                         << <<Transform(FittedVectorizer(<<added>>),
                                        added)>> >>]_vars

\* a search on the store that clear_collection has left without an index
C12_Witness ==
    /\ last_call # <<>>
    /\ last_call[1].op = "search"
    /\ last_call[1].query = <<"ai">>
    /\ last_call[1].value = <<>>
    /\ store[last_call[1].instance].constructed
    /\ store[last_call[1].instance].vectorizer = <<>>
    /\ GetDocumentCount = 0
\* the row of the table that holds the document with this id
PositionOf(id) == CHOOSE j \in 1..Len(documents) : documents[j].id = id

SameSimilarity(x, y) == ~SimLess(x, y) /\ ~SimLess(y, x)

\* C13: search returns its results in order of non-increasing similarity;
\* of two matching documents with equal similarity the one that stands
\* earlier in the corpus comes first, and is the one kept when n_results
\* cuts the list.
C13_StableDescendingOrder ==
    (last_call # <<>> /\ last_call[1].op = "search") =>
        LET returned == last_call[1].value
            st == store[last_call[1].instance]
            SimilarityOfRow(j) ==
                Similarity(Transform(st.vectorizer[1], last_call[1].query),
                           st.document_vectors[1][j])
            Returned(j) ==
                \E k \in 1..Len(returned) : returned[k].id = documents[j].id
        IN  /\ \A k \in 1..(Len(returned) - 1) :
                   /\ ~SimLess(returned[k].similarity,
                               returned[k + 1].similarity)
                   /\ SameSimilarity(returned[k].similarity,
                                     returned[k + 1].similarity) =>
                          PositionOf(returned[k].id)
                              < PositionOf(returned[k + 1].id)
            /\ \A k \in 1..Len(returned), j \in 1..Len(documents) :
                   (/\ ~Returned(j)
                    /\ DOMAIN last_call[1].filter_metadata = {}
                           \/ MatchesFilter(documents[j].metadata,
                                            last_call[1].filter_metadata)
                    /\ SameSimilarity(returned[k].similarity,
                                      SimilarityOfRow(j))) =>
                       PositionOf(returned[k].id) < j
\* 3 for live-scraped brand content, 2 for curated brand style, 1 for the rest
TierRank(example) ==
    IF "source" \notin DOMAIN example.metadata THEN 1
    ELSE IF example.metadata.source = "jenosize_website" THEN 3
    ELSE IF example.metadata.source = "jenosize_style" THEN 2
    ELSE 1

\* the deduplicated candidates that the returned list leaves out
LeftOut ==
    LET unique == UniqueExamples(AllCandidates(examples_request), {})
        returned == final_examples[1].value
    IN  {unique[k] : k \in 1..Len(unique)}
            \ {returned[k] : k \in 1..Len(returned)}

\* relevance_boost + quality_boost of an example, in tenths
BoostOf(example) ==
    (100 - example.distance) * 2
        + (IF "quality_score" \in DOMAIN example.metadata
           THEN example.metadata.quality_score * 2 ELSE 100)

\* C14 as stated: the returned examples stand in tier order (live-scraped,
\* then brand style, then generic) and no left-out candidate is of a higher
\* tier than a returned one.
C14_TierOrderStrict ==
    final_examples # <<>> =>
        LET returned == final_examples[1].value
        IN  /\ \A i, j \in 1..Len(returned) :
                   i < j => TierRank(returned[i]) >= TierRank(returned[j])
            /\ \A k \in 1..Len(returned), c \in LeftOut :
                   TierRank(c) <= TierRank(returned[k])

\* C14, amended: no generic example stands above a brand one (live-scraped
\* or brand style) and none is returned while a brand candidate is left
\* out; a brand-style example stands above a live-scraped one, or is kept
\* in its place, only when its boosts exceed the other's by more than 20.
C14_BrandBeforeGeneric ==
    final_examples # <<>> =>
        LET returned == final_examples[1].value
        IN  /\ \A i, j \in 1..Len(returned) :
                   i < j =>
                       /\ TierRank(returned[i]) = 1 =>
                              TierRank(returned[j]) = 1
                       /\ (TierRank(returned[i]) = 2
                               /\ TierRank(returned[j]) = 3) =>
                              BoostOf(returned[i]) > BoostOf(returned[j]) + 200
            /\ \A k \in 1..Len(returned), c \in LeftOut :
                   /\ TierRank(returned[k]) = 1 => TierRank(c) = 1
                   /\ (TierRank(returned[k]) = 2 /\ TierRank(c) = 3) =>
                          BoostOf(returned[k]) > BoostOf(c) + 200

\* the far, low-quality brand article is returned and the nearest,
\* best-quality template is left out
C14_Witness ==
    /\ final_examples # <<>>
    /\ Len(final_examples[1].value) = 1
    /\ final_examples[1].value[1].id = "w_lo"
    /\ \E c \in LeftOut : c.id = "t_hi"
\* the tier searches of the request that ended in the except branch
FailedTiers == examples_request.failed

\* the filter a tier searches with
TierFilter(tier) ==
    CASE tier = "jenosize_website" -> [source |-> "jenosize_website"]
      [] tier = "jenosize_style" -> [source |-> "jenosize_style"]
      [] OTHER -> TemplateFilter(examples_request.category,
                                 examples_request.industry)

\* a tier that did not fail has a match among the indexed documents
SomeTierHasMatch ==
    \E tier \in Tiers \ FailedTiers, k \in 1..Len(examples_request.hits) :
        \A key \in DOMAIN TierFilter(tier) :
            /\ key \in DOMAIN examples_request.hits[k].metadata
            /\ examples_request.hits[k].metadata[key] = TierFilter(tier)[key]

\* C15: a search that fails returns the empty list, so get_relevant_examples
\* never raises; it returns examples whenever a search that did not fail
\* has a match, and every returned example is a match of such a search.
C15_FailedTierIsEmpty ==
    final_examples # <<>> =>
        /\ ~final_examples[1].raised
        /\ SomeTierHasMatch => final_examples[1].value # <<>>
        /\ \A k \in 1..Len(final_examples[1].value) :
               \E tier \in Tiers \ FailedTiers :
                   \A key \in DOMAIN TierFilter(tier) :
                       /\ key \in DOMAIN final_examples[1].value[k].metadata
                       /\ final_examples[1].value[k].metadata[key] =
                              TierFilter(tier)[key]

\* the brand search failed over an index that holds brand articles, and
\* the call returned the brand-style example
C15_Witness ==
    /\ final_examples # <<>>
    /\ FailedTiers = {"jenosize_website"}
    /\ \E k \in 1..Len(examples_request.hits) :
           examples_request.hits[k].id = "w_hi"
    /\ ~final_examples[1].raised
    /\ final_examples[1].value # <<>>
    /\ final_examples[1].value[1].id = "s_hi"
\* the vectorizer and the matrix of a store come from one completed rebuild
\* (or the store has no matrix)
IndexIsWhole(st) ==
    st.document_vectors # <<>> =>
        /\ st.vectorizer # <<>>
        /\ st.vectorizer[1].fitted
        /\ st.vectorizer[1].n = Len(st.document_vectors[1])
        /\ \A k \in 1..Len(st.document_vectors[1]) :
               DOMAIN st.document_vectors[1][k] = st.vectorizer[1].vocabulary

\* C16: a search that runs while add_document rebuilds the index reads a
\* vectorizer and a matrix that come from the same completed rebuild, and
\* an add_document that fails in the rebuild leaves the index whole.
C16_SearchReadsWholeIndex ==
    [][/\ \A i \in StoreInstances :
              (\E query \in Queries, n_results \in 1..MaxResults,
                  filter_metadata \in Filters \cup {NoFilter} :
                   Search(i, query, n_results, filter_metadata)) =>
                  IndexIsWhole(store[i])
       /\ RebuildAbandoned => IndexIsWhole(store'[rebuild[1].instance])]_vars
\* the line is "OVERALL SCORE: x/10", in any letter case
IsScoreLine(line) ==
    /\ Len(line) = 5
    /\ Upper(line[1]) = "OVERALL SCORE"
    /\ line[2] = ":"
    /\ line[3] \in FloatTokens
    /\ line[4] = "/"
    /\ line[5] = "10"

\* C17: when the first line of the review that contains "OVERALL SCORE:" is
\* "OVERALL SCORE: x/10", overall_score is x; when no line contains
\* "OVERALL SCORE:", overall_score is the default 7.0.
C17_ScoreFollowsColon ==
    review_result # <<>> =>
        LET feedback == review_result[1].review_feedback
            overall_score ==
                review_result[1].quality_assessment.overall_score
            Mentions(i) == \E k \in 1..(Len(feedback[i]) - 1) :
                               /\ Upper(feedback[i][k]) = "OVERALL SCORE"
                               /\ feedback[i][k + 1] = ":"
        IN  IF \E i \in 1..Len(feedback) : Mentions(i)
            THEN LET first == CHOOSE i \in 1..Len(feedback) :
                                  /\ Mentions(i)
                                  /\ \A k \in 1..(i - 1) : ~Mentions(k)
                 IN  IsScoreLine(feedback[first]) =>
                         overall_score = FloatVal(feedback[first][3])
            ELSE overall_score = 70
\* C18: the overall_score of every ReviewResult lies between 0 and 10.
C18_ScoreInRange ==
    review_result # <<>> =>
        /\ review_result[1].quality_assessment.overall_score >= 0
        /\ review_result[1].quality_assessment.overall_score <= 100
\* C19: when parsing the review text raises, the Reviewer still returns a
\* ReviewResult with overall_score 7.0, needs_revision false and the default
\* suggestion, and the request goes on to the Rewrite stage, never failing.
C19_ParseFailureDefaults ==
    (review_result # <<>>
        /\ ExtractOverallScore(review_result[1].review_feedback).raised) =>
        /\ review_result[1].quality_assessment =
               [overall_score |-> 70,
                suggestions |-> << <<"Review parsing failed">> >>,
                needs_revision |-> FALSE]
        /\ pc \in {"rewriting", "assembled", "done"}
        /\ calls["rewriter"] = 1
        /\ HasLog("rewriter: start")
        /\ ~HasLog("workflow: error")

C19_Witness ==
    /\ review_result # <<>>
    /\ ExtractOverallScore(review_result[1].review_feedback).raised
    /\ pc = "done"
    /\ result # <<>>
MinRewriteWords == 100

\* C20: when the Rewriter's inference call succeeds, the returned content is
\* the cleaned model output only if that has more than 100 words and differs
\* from the original; otherwise it is the template-based enhancement of the
\* original.
C20_RewriteAcceptance ==
    [][\A response \in ArticleTexts :
           RewriterReturns(response) =>
               LET original == writing_result[1].article_content
                   topic == writing_result[1].content_metadata.topic
                   cleaned == ParseRewritingResponse(response)
                   returned ==
                       rewriting_result'[1].rewriting_data.rewritten_content
               IN  returned =
                       IF WordCount(cleaned) > MinRewriteWords
                              /\ cleaned # original
                       THEN cleaned
                       ELSE EnhanceContent(original, topic)]_vars
\* C21: when the Rewriter's inference call fails, the content the pipeline
\* returns is the template enhancement of the Writer's draft, not the
\* unmodified draft.
C21_FailureFallsBackToTemplate ==
    [][RewriterRaises =>
           result'[1].final_content =
               EnhanceContent(writing_result[1].article_content,
                              writing_result[1].content_metadata.topic)]_vars
\* C22: the article_content returned by Writer.process always begins with a
\* heading, so the text handed to the Reviewer starts with a heading.
C22_DraftStartsWithHeading ==
    writing_result # <<>> => StartsWithHash(writing_result[1].article_content)
\* C23: validate_content reports is_valid false with a minimum-length issue
\* for every content of fewer than 100 words and with a maximum-length issue
\* for every content of more than 3000 words; the empty string gets the
\* empty-content issue and the minimum-length issue; 100 to 3000 words get
\* neither length issue.
HasIssue(kind) ==
    \E i \in 1..Len(validation_result[1].issues) :
        validation_result[1].issues[i].kind = kind

IssueCites(kind, limit) ==
    \E i \in 1..Len(validation_result[1].issues) :
        /\ validation_result[1].issues[i].kind = kind
        /\ validation_result[1].issues[i].detail[2] = limit

C23_LengthIssues ==
    validation_result # <<>> =>
        LET words == ContentWordCount(validation_request.content)
        IN  /\ words < 100 =>
                   ~validation_result[1].is_valid /\ IssueCites("too_short", 100)
            /\ words > 3000 =>
                   ~validation_result[1].is_valid /\ IssueCites("too_long", 3000)
            /\ validation_request.content = <<>> =>
                   HasIssue("empty") /\ HasIssue("too_short")
            /\ (words >= 100 /\ words <= 3000) =>
                   ~HasIssue("too_short") /\ ~HasIssue("too_long")

C23_Witness ==
    /\ validation_result # <<>>
    /\ ContentWordCount(validation_request.content) = 100
    /\ validation_result[1].is_valid
    /\ validation_result[1].issues = <<>>

\* C24: every configured keyword that does not occur in the content,
\* whatever the case, is named in a warning and never in an issue; is_valid
\* is true exactly when the issues list is empty.
OccursIgnoringCase(keyword, content) ==
    LET text == ContentChars(content, MaxKeywordLen + 1)
    IN  \E i \in 0..(Len(text) - Len(keyword)) :
            \A k \in 1..Len(keyword) :
                LowerChar(text[i + k]) = LowerChar(keyword[k])

NamedIn(entries, keyword) ==
    \E i \in 1..Len(entries) :
        /\ entries[i].kind = "seo_keywords_missing"
        /\ \E k \in 1..Len(entries[i].detail) : entries[i].detail[k] = keyword

C24_MissingKeywordWarns ==
    validation_result # <<>> =>
        LET seo_keywords == validation_request.metadata.seo_keywords
        IN  /\ \A n \in 1..Len(seo_keywords) :
                   /\ ~OccursIgnoringCase(seo_keywords[n],
                                          validation_request.content) =>
                          NamedIn(validation_result[1].warnings, seo_keywords[n])
                   /\ ~NamedIn(validation_result[1].issues, seo_keywords[n])
            /\ validation_result[1].is_valid <=>
                   validation_result[1].issues = <<>>

C24_Witness ==
    /\ validation_result # <<>>
    /\ validation_request.metadata.seo_keywords =
           <<<<"c", "l", "o", "u", "d">>, <<"A", "I">>>>
    /\ NamedIn(validation_result[1].warnings, <<"c", "l", "o", "u", "d">>)
    /\ ~NamedIn(validation_result[1].warnings, <<"A", "I">>)
    /\ validation_result[1].is_valid
\* C25: every successful export_content call leaves all rows already in the
\* log unchanged and adds exactly one row, in any state of the existing file
\* and under any interleaving of two exporting requests.
C25_ExportAppendOnly ==
    [][\A r \in ExportRequests :
           ExportSave(r) => excel_file' = Append(excel_file, RowOf(r))]_vars
\* C26: get_relevant_examples returns at most n_results examples, no two of
\* them with the same first 100 characters of content, and a document found
\* by several tiers appears once.
TimesReturned(id) ==
    Cardinality({i \in 1..Len(final_examples[1].value) :
                     final_examples[1].value[i].id = id})

C26_BoundedAndDistinct ==
    (final_examples # <<>> /\ ~final_examples[1].raised) =>
        LET value == final_examples[1].value
        IN  /\ Len(value) <= examples_request.n_results
            /\ \A i, k \in 1..Len(value) :
                   i # k => value[i].content[1] # value[k].content[1]
            /\ \A i \in 1..Len(examples_request.hits) :
                   TimesReturned(examples_request.hits[i].id) <= 1

C26_Witness ==
    /\ final_examples # <<>>
    /\ examples_request.failed = {}
    /\ examples_request.category = "AI"
    /\ examples_request.n_results = 2
    /\ \E i \in 1..Len(examples_request.hits) :
           examples_request.hits[i].id = "t_dup"
    /\ Len(AllCandidates(examples_request)) = 3
    /\ TimesReturned("w_hi") = 1
    /\ TimesReturned("t_dup") = 0
    /\ Len(final_examples[1].value) = 1
\* C27: add_document called without an id stores the document under an id
\* not yet in the table, and get_document_count() grows by exactly one.
C27_GeneratedIdIsFresh ==
    [][\A i \in StoreInstances, doc \in SampleDocuments :
           AddDocument(i, doc.content, doc.metadata, NoId, TRUE) =>
               /\ \A k \in 1..Len(documents) :
                      documents[k].id # last_call'[1].value
               /\ Len(documents') = GetDocumentCount + 1]_vars
\* the index of st has one vector per row of the table, built from the rows'
\* current contents
IndexMatchesTable(st) ==
    documents # <<>> =>
        /\ st.document_vectors # <<>>
        /\ Len(st.document_vectors[1]) = Len(documents)
        /\ \A k \in 1..Len(documents) :
               st.document_vectors[1][k] = VectorOfCurrent(documents[k].content)

\* C28: after one store instance has added a document, a search through
\* another instance over the same database uses an index built from the
\* current document table.
C28_SearchAfterForeignInsert ==
    [][\A i \in Instances :
           (/\ last_call # <<>>
            /\ last_call[1].op = "add_document"
            /\ ~last_call[1].raised
            /\ last_call[1].instance # i
            /\ \E query \in SharedQueries, n_results \in 1..MaxResults :
                   Search(i, query, n_results, NoFilter)) =>
               IndexMatchesTable(store[i])]_vars
\* C29: when add_document raises, the document table and the calling
\* store's vectorizer and matrix are what they were before the call.
C29_FailedAddLeavesStore ==
    [][\A i \in StoreInstances :
           /\ AddDocumentWriteFails(i) =>
                  documents' = documents /\ store'[i] = store[i]
           /\ \A doc \in SampleDocuments, doc_id \in ExplicitIds \cup {NoId} :
                  (/\ AddDocument(i, doc.content, doc.metadata, doc_id, TRUE)
                   /\ last_call'[1].raised) =>
                      documents' = documents /\ store'[i] = store[i]]_vars
\* C30: every FinalResult returned by generate_content has non-empty
\* final_content; a result with quality_score 10.0 and rewriting_applied
\* true never carries empty content.
C30_FinalContentNonEmpty ==
    result # <<>> => result[1].final_content # EmptyText
====
